---- MODULE Spec2Model ----
(***************************************************************************)
(* A model of the tactical layer of the chronodivide bot: the attack,      *)
(* naval and scouting missions, their factories, the naval squad and the   *)
(* mission controller that drives them.                                    *)
(*                                                                         *)
(* The module holds several specifications over one set of variables; each *)
(* specification drives one part of the program and leaves the variables   *)
(* of the other parts at their idle values.                                *)
(***************************************************************************)
EXTENDS Integers, Sequences, FiniteSets, TLC

VARIABLES
    tick,      \* gameApi.getCurrentTick()
    world,     \* the snapshot the awareness / game api answers queries from
    am,        \* the fields of one AttackMission
    mc,        \* the MissionController: its missions and its factories
    sq,        \* the fields of one NavalSquad and of the mission that owns it
    ret,       \* the value the last call returned
    hist       \* history kept for the properties, never read by the program

vars == <<tick, world, am, mc, sq, ret, hist>>

\* the value of a variable whose part of the program a specification leaves out
Idle == "idle"

----------------------------------------------------------------------------
(* Generic helpers *)

Min(a, b) == IF a < b THEN a ELSE b

Max(a, b) == IF a > b THEN a ELSE b

Abs(a) == IF a < 0 THEN -a ELSE a

\* floor(sqrt(n)) for n >= 0
RECURSIVE ISqrtIn(_, _, _)
ISqrtIn(n, lo, hi) ==
    IF lo >= hi THEN lo
    ELSE LET mid == (lo + hi + 1) \div 2
         IN  IF mid * mid <= n THEN ISqrtIn(n, mid, hi) ELSE ISqrtIn(n, lo, mid - 1)

ISqrt(n) == ISqrtIn(n, 0, Min(n, 46340))

\* Distances are kept in tenths: Dist10(p, q) = floor(10 * |p - q|).
Dist10(p, q) ==
    ISqrt(100 * ((p[1] - q[1]) * (p[1] - q[1]) + (p[2] - q[2]) * (p[2] - q[2])))

----------------------------------------------------------------------------
(* Program constants of the attack mission *)

TARGET_LOCK_DURATION == 150

TARGET_MEMORY_SIZE == 3

\* 1 + TARGET_SWITCH_MIN_IMPROVEMENT, in tenths
TARGET_SWITCH_RATIO10 == 13

\* attackRadius of AttackMissionFactory.maybeCreateMissions
ATTACK_RADIUS == 10

NAVAL_YARD_SCORE == 45

BUILDING_SCORE == 10

COMBATANT_SCORE == 5

OTHER_SCORE == 1

\* |dx| < 5 and |dy| < 5 around a recently visited target
RECENT_TARGET_EXCLUSION == 5

NO_TARGET_IDLE_TIMEOUT_TICKS == 450

ATTACK_MISSION_INITIAL_PRIORITY == 50

\* ATTACK_MISSION_PRIORITY_RAMP, in tenths
ATTACK_MISSION_PRIORITY_RAMP10 == 12

ATTACK_MISSION_MAX_PRIORITY == 100

MIN_ATTACK_SQUAD_SIZE == 3

\* FORCE_ATTACK_THRESHOLD, in tenths
FORCE_ATTACK_THRESHOLD10 == 8

BUILDING_DEFENSE_RADIUS == 30

MAX_SEARCH_RADIUS == 100

SEARCH_RADIUS_INCREMENT == 10

SEARCH_EXPAND_INTERVAL == 60

MAX_GATHER_TIME == 450

FORCE_ATTACK_DISTANCE == 40

BUILDING_SEARCH_COOLDOWN == 30

\* searchRadius and currentSearchRadius of a new AttackMission
INITIAL_SEARCH_RADIUS == 20

\* radius of the hostile query around a found target
NEARBY_TARGET_RADIUS == 5

\* safeMargin of searchEnemyBuildings
SAFE_MARGIN == 5

\* Date.now() is milliseconds since 1970: a value above every tick a match
\* reaches.
WallClockNow == 1000000

----------------------------------------------------------------------------
(* Bounds of the target-switch harness *)

\* number of clock advances
MaxSwitchSteps == 3

\* The points targets and hostiles can sit on.
SwitchPoints == {<<0, 0>>, <<4, 6>>, <<30, 0>>}

\* The hostiles the awareness cache may report.
HostileUniverse ==
    { [pos |-> <<0, 0>>,  kind |-> "combatant", neutral |-> FALSE, naval |-> FALSE],
      [pos |-> <<4, 6>>,  kind |-> "building",  neutral |-> FALSE, naval |-> FALSE],
      [pos |-> <<30, 0>>, kind |-> "NAYARD",    neutral |-> FALSE, naval |-> FALSE],
      [pos |-> <<0, 0>>,  kind |-> "other",     neutral |-> TRUE,  naval |-> FALSE] }

----------------------------------------------------------------------------
(* The awareness cache *)

\* matchAwareness.getHostilesNearPoint2d(point, radius)
HostilesNearPoint2d(w, point, radius) ==
    { h \in w.hostiles :
        (h.pos[1] - point[1]) * (h.pos[1] - point[1])
          + (h.pos[2] - point[2]) * (h.pos[2] - point[2]) <= radius * radius }

----------------------------------------------------------------------------
(* AttackMission: target scoring and target switching *)

RECURSIVE SumScores(_)

HostileScore(h) ==
    CASE h.kind = "NAYARD"    -> NAVAL_YARD_SCORE
      [] h.kind = "building"  -> BUILDING_SCORE
      [] h.kind = "combatant" -> COMBATANT_SCORE
      [] OTHER                -> OTHER_SCORE

SumScores(hs) ==
    IF hs = {} THEN 0
    ELSE LET h == CHOOSE x \in hs : TRUE IN HostileScore(h) + SumScores(hs \ {h})

\* evaluateTarget: the score as the fraction 1000 * num / den, which is
\* sum / (1 + distance * 0.01), or sum / (1 + distance * 0.005) with a naval
\* yard in range.
evaluateTarget(m, w, target) ==
    LET hostiles == { h \in HostilesNearPoint2d(w, target, m.radius) : ~h.neutral }
        sum == SumScores(hostiles)
        hasNavalYard == \E h \in hostiles : h.kind = "NAYARD"
        d10 == Dist10(w.centerOfMass, target)
    IN  IF w.centerOfMass = <<>>
        THEN [num |-> sum, den |-> 1000]
        ELSE IF hasNavalYard
             THEN [num |-> sum * 2, den |-> 2000 + d10]
             ELSE [num |-> sum, den |-> 1000 + d10]

\* a > b * 1.3 on fractions
ScoreImproves(a, b) ==
    10 * a.num * b.den > TARGET_SWITCH_RATIO10 * b.num * a.den

RecentlyVisited(m, newTarget) ==
    \E i \in 1..Len(m.recentTargets) :
        /\ Abs(m.recentTargets[i][1] - newTarget[1]) < RECENT_TARGET_EXCLUSION
        /\ Abs(m.recentTargets[i][2] - newTarget[2]) < RECENT_TARGET_EXCLUSION

\* this.squad.getAttackArea() is kept in squadAttackArea
CurrentTargetStillValid(m, w) ==
    HostilesNearPoint2d(w, m.squadAttackArea, m.radius) # {}

\* shouldSwitchTarget with the lock test written <= instead of <
shouldSwitchTarget_LockOffByOne(m, w, newTarget, currentTick) ==
    IF /\ currentTick - m.currentTargetLockTime <= TARGET_LOCK_DURATION
       /\ CurrentTargetStillValid(m, w)
    THEN FALSE
    ELSE IF RecentlyVisited(m, newTarget)
         THEN FALSE
         ELSE ScoreImproves(evaluateTarget(m, w, newTarget), m.currentTargetScore)

shouldSwitchTarget(m, w, newTarget, currentTick) ==
    IF /\ currentTick - m.currentTargetLockTime < TARGET_LOCK_DURATION
       /\ CurrentTargetStillValid(m, w)
    THEN FALSE
    ELSE IF RecentlyVisited(m, newTarget)
         THEN FALSE
         ELSE ScoreImproves(evaluateTarget(m, w, newTarget), m.currentTargetScore)

updateTarget(m, w, newTarget, currentTick) ==
    LET pushed == Append(m.recentTargets, newTarget)
    IN  [m EXCEPT
            !.squadAttackArea = newTarget,
            !.lastTargetSeenAt = currentTick,
            !.lastTargetUpdateTime = currentTick,
            !.currentTargetLockTime = currentTick,
            !.currentTargetScore = evaluateTarget(m, w, newTarget),
            !.recentTargets = IF Len(pushed) > TARGET_MEMORY_SIZE
                              THEN Tail(pushed) ELSE pushed]

\* new AttackMission(name, ATTACK_MISSION_INITIAL_PRIORITY, rally, attackArea,
\* attackRadius, composition): the field initialisers and the constructor.
\* now is the value Date.now() returned.  Priorities are kept in tenths.
NewAttackMission(attackArea, composition, now) ==
    [ state |-> "Preparing",
      priority10 |-> 10 * ATTACK_MISSION_INITIAL_PRIORITY,
      attackArea |-> attackArea,
      squadAttackArea |-> attackArea,
      radius |-> ATTACK_RADIUS,
      composition |-> composition,
      lastSearchTime |-> 0,
      searchRadius |-> INITIAL_SEARCH_RADIUS,
      missionStartTime |-> now,
      gatherStartTime |-> now,
      lastBuildingSearchTime |-> 0,
      currentSearchRadius |-> INITIAL_SEARCH_RADIUS,
      lastTargetSeenAt |-> 0,
      lastTargetUpdateTime |-> 0,
      currentTargetLockTime |-> 0,
      currentTargetScore |-> [num |-> 0, den |-> 1000],
      recentTargets |-> <<>> ]

----------------------------------------------------------------------------
(* SpecSwitch: shouldSwitchTarget and updateTarget applied to drawn inputs *)

SwitchInit ==
    /\ mc = Idle
    /\ sq = Idle
    /\ tick = 0
    /\ \E hs \in SUBSET HostileUniverse, c \in SwitchPoints \cup {<<>>} :
          world = [hostiles |-> hs, centerOfMass |-> c]
    /\ \E a \in SwitchPoints : am = NewAttackMission(a, [E1 |-> 5], WallClockNow)
    /\ ret = [op |-> "none"]
    /\ hist = [op |-> "none"]

SwitchAdvance ==
    /\ tick < MaxSwitchSteps * 75
    /\ tick' = tick + 75
    /\ ret' = [op |-> "none"]
    /\ UNCHANGED <<world, am, mc, sq, hist>>

CallShouldSwitchTarget ==
    \E newTarget \in SwitchPoints :
        /\ ret' = [ op |-> "shouldSwitchTarget",
                    newTarget |-> newTarget,
                    value |-> shouldSwitchTarget(am, world, newTarget, tick) ]
        /\ UNCHANGED <<tick, world, am, mc, sq, hist>>

CallUpdateTarget ==
    \E newTarget \in SwitchPoints :
        /\ am' = updateTarget(am, world, newTarget, tick)
        /\ ret' = [op |-> "updateTarget"]
        /\ UNCHANGED <<tick, world, mc, sq, hist>>

SwitchNext == SwitchAdvance \/ CallShouldSwitchTarget \/ CallUpdateTarget

SpecSwitch == SwitchInit /\ [][SwitchNext]_vars

\* What the claims about target switching speak of, on the call just made.
SwitchLockAge == tick - am.currentTargetLockTime

SwitchCandidateScore == evaluateTarget(am, world, ret.newTarget)

SwitchScoreExceeds ==
    10 * SwitchCandidateScore.num * am.currentTargetScore.den
        > 13 * am.currentTargetScore.num * SwitchCandidateScore.den

SwitchOutsideExclusion ==
    \A i \in 1..Len(am.recentTargets) :
        \/ Abs(am.recentTargets[i][1] - ret.newTarget[1]) >= 5
        \/ Abs(am.recentTargets[i][2] - ret.newTarget[2]) >= 5

SwitchNoHostileAtCurrent ==
    \A h \in world.hostiles :
        (h.pos[1] - am.squadAttackArea[1]) * (h.pos[1] - am.squadAttackArea[1])
          + (h.pos[2] - am.squadAttackArea[2]) * (h.pos[2] - am.squadAttackArea[2])
              > am.radius * am.radius

\* C5 as stated: shouldSwitchTarget returns true if and only if the lock age
\* is at least 150 ticks, the candidate's score exceeds 1.3 times the current
\* score, and the candidate is outside the exclusion square of every
\* remembered target.
C5_SwitchIffAllThree ==
    ret.op = "shouldSwitchTarget" =>
        (ret.value <=>
            (SwitchLockAge >= 150 /\ SwitchScoreExceeds /\ SwitchOutsideExclusion))

\* C5 amended: shouldSwitchTarget returns true if and only if the lock age is
\* at least 150 ticks or no hostile is left within the mission radius of the
\* current attack area, and the candidate's score exceeds 1.3 times the
\* current score, and the candidate is outside the exclusion square (less
\* than 5 on both axes) of every remembered target (at most 3).
C5_SwitchIffLockOrLostTarget ==
    /\ Len(am.recentTargets) <= 3
    /\ ret.op = "shouldSwitchTarget" =>
          (ret.value <=>
              ((SwitchLockAge >= 150 \/ SwitchNoHostileAtCurrent)
                  /\ SwitchScoreExceeds /\ SwitchOutsideExclusion))

\* A switch is granted at lock age exactly 150 with the current target still
\* held by a hostile, three targets remembered.
C5_Witness ==
    /\ ret.op = "shouldSwitchTarget"
    /\ ret.value
    /\ SwitchLockAge = 150
    /\ ~SwitchNoHostileAtCurrent
    /\ Len(am.recentTargets) = 3

----------------------------------------------------------------------------
(* AttackMission: what the handlers read from the game *)

\* gameApi.mapApi.getRealMapSize()
RealMapSize == [width |-> 64, height |-> 64]

NoPoint == <<>>

noop == [type |-> "noop"]

requestUnits(unitNames, priority10) ==
    [type |-> "requestUnits", unitNames |-> unitNames, priority10 |-> priority10]

searchBuildings(position, radius) ==
    [type |-> "searchBuildings", position |-> position, radius |-> radius]

RECURSIVE CountUnits(_)
\* Object.values(composition).reduce((sum, count) => sum + count, 0)
CountUnits(c) ==
    IF DOMAIN c = {} THEN 0
    ELSE LET t == CHOOSE x \in DOMAIN c : TRUE
         IN  c[t] + CountUnits([u \in DOMAIN c \ {t} |-> c[u]])

\* currentComposition[unitType], 0 when the type is absent
HeldCount(w, t) == IF t \in DOMAIN w.held THEN w.held[t] ELSE 0

HeldTypes(w) == { t \in DOMAIN w.held : w.held[t] > 0 }

\* unit.rules.naval || unit.name === 'DEST'
IsNavalUnitType(t) == t = "DEST"

IsBuilding(h) == h.kind \in {"building", "NAYARD"}

canUnitAttackTarget(unitType, target) ==
    IF target.kind = "NAYARD" THEN IsNavalUnitType(unitType)
    ELSE IF target.naval THEN IsNavalUnitType(unitType)
    ELSE ~target.naval

\* The values checkFriendlyBuildingsUnderAttack can return: the position of
\* the first hostile the awareness lists near the first allied building that
\* has one; the order of both lists is the game's.
checkFriendlyBuildingsUnderAttack(w) ==
    LET near(b) == { h \in HostilesNearPoint2d(w, b, BUILDING_DEFENSE_RADIUS) : ~h.neutral }
        found == UNION { { h.pos : h \in near(b) } : b \in w.alliedBuildings }
    IN  IF found = {} THEN {NoPoint} ELSE found

\* AttackMission.getCenterOfMass: the mean of the tiles of the units the
\* mission holds, null without units; the world carries the mean.
getCenterOfMass(w) ==
    IF CountUnits(w.held) = 0 THEN NoPoint ELSE w.centerOfMass

SqDist(p, q) ==
    (p[1] - q[1]) * (p[1] - q[1]) + (p[2] - q[2]) * (p[2] - q[2])

\* The areas searchEnemyBuildings falls back to, in the order of its list.
UnexploredAreas ==
    LET mapWidth == RealMapSize.width - 1
        mapHeight == RealMapSize.height - 1
    IN  << <<SAFE_MARGIN, SAFE_MARGIN>>,
           <<mapWidth - SAFE_MARGIN, SAFE_MARGIN>>,
           <<SAFE_MARGIN, mapHeight - SAFE_MARGIN>>,
           <<mapWidth - SAFE_MARGIN, mapHeight - SAFE_MARGIN>>,
           <<mapWidth \div 2, mapHeight \div 2>> >>

\* function searchEnemyBuildings: the nearest visible enemy building the unit
\* can attack, else the nearest unexplored area (the sort is stable).  A naval
\* yard is in the list only for a naval unit, which no attack composition
\* holds, so its branch is not taken.
searchEnemyBuildings(w, position, unitType) ==
    LET enemyUnits == { h \in w.hostiles :
                          /\ ~h.neutral
                          /\ IsBuilding(h)
                          /\ canUnitAttackTarget(unitType, h) }
        nearest == { h \in enemyUnits :
                       \A g \in enemyUnits : SqDist(h.pos, position) <= SqDist(g.pos, position) }
        mapWidth == RealMapSize.width - 1
        mapHeight == RealMapSize.height - 1
        safe == << Min(mapWidth - SAFE_MARGIN, Max(SAFE_MARGIN, position[1])),
                   Min(mapHeight - SAFE_MARGIN, Max(SAFE_MARGIN, position[2])) >>
        first == CHOOSE i \in 1..Len(UnexploredAreas) :
                    /\ \A j \in 1..Len(UnexploredAreas) :
                          SqDist(UnexploredAreas[i], safe) <= SqDist(UnexploredAreas[j], safe)
                    /\ \A j \in 1..(i - 1) :
                          SqDist(UnexploredAreas[j], safe) > SqDist(UnexploredAreas[i], safe)
    IN  IF enemyUnits # {}
        THEN { h.pos : h \in nearest }
        ELSE { UnexploredAreas[first] }

\* findNearbyTarget: the mission after the radius growth, with each point the
\* search can return (null without units).  The loop over naval yards needs a
\* naval attacker among the mission's units and returns nothing without one.
findNearbyTarget(m, w, position, currentTick) ==
    LET m1 == IF currentTick - m.lastSearchTime > SEARCH_EXPAND_INTERVAL
              THEN [m EXCEPT
                      !.searchRadius = Min(m.searchRadius + SEARCH_RADIUS_INCREMENT,
                                           MAX_SEARCH_RADIUS),
                      !.lastSearchTime = currentTick]
              ELSE m
        types == HeldTypes(w)
        hostiles == { h \in HostilesNearPoint2d(w, position, m1.searchRadius) : ~h.neutral }
        validTargets == { h \in hostiles : \E t \in types : canUnitAttackTarget(t, h) }
        buildings == { h \in validTargets : IsBuilding(h) }
        combatUnits == { h \in validTargets : h.kind = "combatant" }
        targets ==
            IF types = {} THEN {NoPoint}
            ELSE IF buildings # {} THEN { h.pos : h \in buildings }
            ELSE IF combatUnits # {} THEN { h.pos : h \in combatUnits }
            ELSE IF validTargets # {} THEN { h.pos : h \in validTargets }
            ELSE UNION { searchEnemyBuildings(w, position, t) : t \in types }
    IN  { [m |-> m1, target |-> p] : p \in targets }

----------------------------------------------------------------------------
(* AttackMission: the Preparing and Attacking handlers *)

\* totalUnits >= MIN_ATTACK_SQUAD_SIZE with the bound one lower
HasMinSquad_OneLess(totalUnits) == totalUnits >= MIN_ATTACK_SQUAD_SIZE - 1

\* totalUnits >= MIN_ATTACK_SQUAD_SIZE
HasMinSquad(totalUnits) == totalUnits >= MIN_ATTACK_SQUAD_SIZE

\* distanceToTarget <= FORCE_ATTACK_DISTANCE
WithinForceAttackDistance(centerOfMass, attackArea) ==
    SqDist(centerOfMass, attackArea) <= FORCE_ATTACK_DISTANCE * FORCE_ATTACK_DISTANCE

\* this.priority * ATTACK_MISSION_PRIORITY_RAMP without the ceiling
RampPriority_NoCeiling(priority10) ==
    (priority10 * ATTACK_MISSION_PRIORITY_RAMP10) \div 10

\* Math.min(this.priority * ATTACK_MISSION_PRIORITY_RAMP,
\* ATTACK_MISSION_MAX_PRIORITY), in tenths
RampPriority(priority10) ==
    Min((priority10 * ATTACK_MISSION_PRIORITY_RAMP10) \div 10,
        10 * ATTACK_MISSION_MAX_PRIORITY)

\* handlePreparingState from the gather-time test on
PreparingRest(m, w, currentTick) ==
    LET totalUnits == CountUnits(w.held)
        targetTotal == CountUnits(m.composition)
        gatherTime == currentTick - m.gatherStartTime
        missingUnits == { t \in DOMAIN m.composition : HeldCount(w, t) < m.composition[t] }
        ramped == RampPriority(m.priority10)
    IN  IF gatherTime > MAX_GATHER_TIME /\ HasMinSquad(totalUnits)
        THEN [m |-> [m EXCEPT !.state = "Attacking"], action |-> noop]
        ELSE IF 10 * totalUnits >= FORCE_ATTACK_THRESHOLD10 * targetTotal
        THEN [m |-> [m EXCEPT !.state = "Attacking"], action |-> noop]
        ELSE IF missingUnits # {}
        THEN [m |-> [m EXCEPT !.priority10 = ramped],
              action |-> requestUnits(missingUnits, ramped)]
        ELSE [m |-> m, action |-> noop]

\* handlePreparingState after findNearbyTarget returned found.target
PreparingNearby(found, w, currentTick) ==
    LET targetUnits == HostilesNearPoint2d(w, found.target, NEARBY_TARGET_RADIUS)
        requiresNavalForce == \E h \in targetUnits : h.kind = "NAYARD" \/ h.naval
        hasNavalUnits == \E t \in HeldTypes(w) : IsNavalUnitType(t)
    IN  IF found.target = NoPoint
        THEN PreparingRest(found.m, w, currentTick)
        ELSE IF requiresNavalForce /\ ~hasNavalUnits
        THEN [m |-> found.m,
              action |-> [type |-> "request_naval_mission", target |-> found.target]]
        ELSE [m |-> [found.m EXCEPT !.squadAttackArea = found.target,
                                    !.state = "Attacking"],
              action |-> noop]

\* handlePreparingState without the nearby-target search
handlePreparingState_SkipsNearby(m, w, currentTick) ==
    LET totalUnits == CountUnits(w.held)
        centerOfMass == getCenterOfMass(w)
        with(buildingAttacker) ==
            IF buildingAttacker # NoPoint /\ HasMinSquad(totalUnits)
            THEN { [m |-> [m EXCEPT !.squadAttackArea = buildingAttacker,
                                    !.state = "Attacking"],
                    action |-> noop] }
            ELSE IF HasMinSquad(totalUnits) /\ centerOfMass # NoPoint
                    /\ WithinForceAttackDistance(centerOfMass, m.attackArea)
            THEN { [m |-> [m EXCEPT !.state = "Attacking"], action |-> noop] }
            ELSE { PreparingRest(m, w, currentTick) }
    IN  UNION { with(a) : a \in checkFriendlyBuildingsUnderAttack(w) }

\* handlePreparingState: every (mission, action) it can end with
handlePreparingState(m, w, currentTick) ==
    LET totalUnits == CountUnits(w.held)
        centerOfMass == getCenterOfMass(w)
        with(buildingAttacker) ==
            IF buildingAttacker # NoPoint /\ HasMinSquad(totalUnits)
            THEN { [m |-> [m EXCEPT !.squadAttackArea = buildingAttacker,
                                    !.state = "Attacking"],
                    action |-> noop] }
            ELSE IF HasMinSquad(totalUnits) /\ centerOfMass # NoPoint
            THEN IF WithinForceAttackDistance(centerOfMass, m.attackArea)
                 THEN { [m |-> [m EXCEPT !.state = "Attacking"], action |-> noop] }
                 ELSE { PreparingNearby(found, w, currentTick) :
                          found \in findNearbyTarget(m, w, centerOfMass, currentTick) }
            ELSE { PreparingRest(m, w, currentTick) }
    IN  UNION { with(a) : a \in checkFriendlyBuildingsUnderAttack(w) }

\* CombatSquad.onAiUpdate turns the mission's units into orders and hands
\* back no mission action.
CombatSquad_onAiUpdate(m, w, currentTick) == noop

\* the method AttackMission.searchEnemyBuildings
AttackMission_searchEnemyBuildings(m, w, currentTick) ==
    LET m1 == IF currentTick - m.lastBuildingSearchTime >= SEARCH_EXPAND_INTERVAL
              THEN [m EXCEPT
                      !.currentSearchRadius =
                          Min(m.currentSearchRadius + SEARCH_RADIUS_INCREMENT,
                              MAX_SEARCH_RADIUS),
                      !.lastBuildingSearchTime = currentTick]
              ELSE m
        centerOfMass == getCenterOfMass(w)
    IN  IF centerOfMass = NoPoint
        THEN [m |-> m1, action |-> noop]
        ELSE [m |-> m1, action |-> searchBuildings(centerOfMass, m1.currentSearchRadius)]

\* handleAttackingState with a mission that retreats once its target is no
\* longer valid
handleAttackingState_Retreats(m, w, currentTick) ==
    IF ~CurrentTargetStillValid(m, w)
    THEN [m |-> [m EXCEPT !.state = "Retreating"], action |-> noop]
    ELSE [m |-> m, action |-> CombatSquad_onAiUpdate(m, w, currentTick)]

handleAttackingState(m, w, currentTick) ==
    LET update == CombatSquad_onAiUpdate(m, w, currentTick)
    IN  IF update.type # "noop"
        THEN [m |-> m, action |-> update]
        ELSE IF /\ ~CurrentTargetStillValid(m, w)
                /\ currentTick - m.lastBuildingSearchTime >= BUILDING_SEARCH_COOLDOWN
        THEN AttackMission_searchEnemyBuildings(m, w, currentTick)
        ELSE [m |-> m, action |-> noop]

\* AttackMission._onAiUpdate
AttackMission_onAiUpdate(m, w, currentTick) ==
    CASE m.state = "Preparing" -> handlePreparingState(m, w, currentTick)
      [] m.state = "Attacking" -> { handleAttackingState(m, w, currentTick) }
      [] OTHER                 -> { [m |-> m, action |-> noop] }

\* isUnitsLocked with the comparison turned around
AttackMission_isUnitsLocked_WhilePreparing(m) == m.state = "Preparing"

\* AttackMission.isUnitsLocked
AttackMission_isUnitsLocked(m) == m.state # "Preparing"

----------------------------------------------------------------------------
(* SpecAttack: one AttackMission updated against drawn worlds *)

\* the clock stops at MaxAttackUpdates * 60
MaxAttackUpdates == 9

\* the most units the mission is drawn to hold
MaxHeld == 4

\* ticks between two updates of the mission
AttackSteps == {60}

AttackAreas == {<<10, 0>>, <<60, 0>>}

AttackCentroids == {<<0, 0>>, <<20, 0>>}

\* The hostiles the awareness reports with the allied buildings in sight.
AttackScenes ==
    LET hC == [pos |-> <<10, 0>>, kind |-> "combatant", neutral |-> FALSE, naval |-> FALSE]
        hB == [pos |-> <<24, 0>>, kind |-> "building",  neutral |-> FALSE, naval |-> FALSE]
        hY == [pos |-> <<27, 0>>, kind |-> "NAYARD",    neutral |-> FALSE, naval |-> FALSE]
    IN  { [hostiles |-> {},       alliedBuildings |-> {}],
          [hostiles |-> {hC},     alliedBuildings |-> {}],
          [hostiles |-> {hC},     alliedBuildings |-> {<<0, 0>>}],
          [hostiles |-> {hB, hY}, alliedBuildings |-> {}] }

\* The unit counts the mission is drawn to hold: none, or from one below the
\* minimum squad size up.
HeldCounts == (MIN_ATTACK_SQUAD_SIZE - 1)..MaxHeld

AttackWorlds ==
    { [hostiles |-> sc.hostiles, alliedBuildings |-> sc.alliedBuildings,
       held |-> [E1 |-> k], centerOfMass |-> c] :
        sc \in AttackScenes, k \in HeldCounts, c \in AttackCentroids }
    \cup
    { [hostiles |-> sc.hostiles, alliedBuildings |-> sc.alliedBuildings,
       held |-> [E1 |-> 0], centerOfMass |-> NoPoint] :
        sc \in AttackScenes }

AttackInit ==
    /\ mc = Idle
    /\ sq = Idle
    /\ tick = 0
    /\ world \in AttackWorlds
    /\ \E a \in AttackAreas : am = NewAttackMission(a, [E1 |-> 5], WallClockNow)
    /\ ret = [op |-> "none"]
    /\ hist = [lastValidAt |-> 0, createdAt |-> 0,
               heldSquad |-> CountUnits(world.held) >= MIN_ATTACK_SQUAD_SIZE]

AttackUpdate ==
    \E dt \in AttackSteps, w \in AttackWorlds :
        /\ tick + dt <= MaxAttackUpdates * 60
        /\ \E out \in AttackMission_onAiUpdate(am, w, tick + dt) :
              /\ tick' = tick + dt
              /\ world' = w
              /\ am' = out.m
              /\ ret' = [op |-> "AttackMission._onAiUpdate",
                         stateBefore |-> am.state,
                         priorityBefore |-> am.priority10,
                         action |-> out.action]
              /\ hist' = [lastValidAt |->
                            IF CurrentTargetStillValid(out.m, w)
                            THEN tick + dt ELSE hist.lastValidAt,
                          createdAt |-> hist.createdAt,
                          heldSquad |-> hist.heldSquad
                                          /\ CountUnits(w.held) >= MIN_ATTACK_SQUAD_SIZE]
              /\ UNCHANGED <<mc, sq>>

AttackNext == AttackUpdate

SpecAttack == AttackInit /\ [][AttackNext]_vars

\* The update just made took the mission from Preparing to Attacking.
AttackJustStarted ==
    /\ ret.op = "AttackMission._onAiUpdate"
    /\ ret.stateBefore = "Preparing"
    /\ am.state = "Attacking"

\* The four conditions of the Preparing -> Attacking rule, on the world the
\* update read.
PrepUnitsReached == 10 * CountUnits(world.held) >= 8 * CountUnits(am.composition)

PrepGatherTimedOut == tick - am.gatherStartTime > 450 /\ CountUnits(world.held) >= 3

PrepBuildingAttacked ==
    /\ CountUnits(world.held) >= 3
    /\ \E b \in world.alliedBuildings : \E h \in world.hostiles :
          ~h.neutral /\ SqDist(h.pos, b) <= 30 * 30

PrepCentroidNear ==
    /\ world.centerOfMass # NoPoint
    /\ SqDist(world.centerOfMass, am.attackArea) <= 40 * 40

\* The path the rule leaves out: at least 3 units with a centroid, and the
\* nearby-target search handed the squad a point with no naval yard and no
\* naval unit within 5.
PrepNearbyTargetFound ==
    /\ CountUnits(world.held) >= 3
    /\ world.centerOfMass # NoPoint
    /\ \A h \in world.hostiles :
          SqDist(h.pos, am.squadAttackArea) <= 5 * 5 => (h.kind # "NAYARD" /\ ~h.naval)

\* C10 as stated: an AttackMission leaves Preparing for Attacking only if it
\* holds at least 0.8 times its target total, or its gather time exceeds 450
\* with at least 3 units, or an allied building is under attack within 30
\* with at least 3 units, or its centroid is within 40 of the attack area.
C10_StartsOnlyOnFourConditions ==
    AttackJustStarted =>
        (PrepUnitsReached \/ PrepGatherTimedOut \/ PrepBuildingAttacked \/ PrepCentroidNear)

\* C10 amended: an AttackMission leaves Preparing for Attacking only if one
\* of the four conditions holds, or it holds at least 3 units and its
\* nearby-target search returned a point that needs no naval force.
C10_StartsOnlyOnFiveConditions ==
    AttackJustStarted =>
        (PrepUnitsReached \/ PrepGatherTimedOut \/ PrepBuildingAttacked \/ PrepCentroidNear
            \/ PrepNearbyTargetFound)

\* The mission starts its attack on the fifth path alone: 3 of 5 units, no
\* building under attack, the centroid 60 from the attack area.
C10_Witness ==
    /\ AttackJustStarted
    /\ PrepNearbyTargetFound
    /\ ~(PrepUnitsReached \/ PrepGatherTimedOut \/ PrepBuildingAttacked \/ PrepCentroidNear)

\* C7 as stated: an AttackMission in Attacking that finds no hostile near its
\* target, whose search radius is at its maximum of 100 and for which 450
\* ticks have passed without a target, returns Disband with reason NoTargets.
C7_DisbandsWithNoTargets ==
    ( /\ ret.op = "AttackMission._onAiUpdate"
      /\ ret.stateBefore = "Attacking"
      /\ ~CurrentTargetStillValid(am, world)
      /\ am.currentSearchRadius = 100
      /\ tick - hist.lastValidAt > 450 )
    => (ret.action.type = "disband" /\ ret.action.reason = "NoTargets")

\* C11 as stated: an AttackMission that has held at least 3 units on every
\* update while Preparing has left Preparing once more than 450 ticks have
\* passed since it was created.
C11_LeavesPreparingWithinGatherTime ==
    ( /\ ret.op = "AttackMission._onAiUpdate"
      /\ hist.heldSquad
      /\ tick - hist.createdAt > 450 )
    => am.state # "Preparing"

\* What the updates of a mission do to its priority, on the update just made.
AttackMissingTypes ==
    { t \in DOMAIN am.composition :
        (IF t \in DOMAIN world.held THEN world.held[t] ELSE 0) < am.composition[t] }

AttackRequestedMissing ==
    /\ ret.stateBefore = "Preparing"
    /\ ret.action.type = "requestUnits"
    /\ ret.action.unitNames = AttackMissingTypes
    /\ AttackMissingTypes # {}

\* C13: the priority of an AttackMission starts at 50, never decreases, never
\* exceeds 100, changes only on a Preparing update that returns RequestUnits
\* for the unit types still missing, and each such update multiplies it by
\* 1.2 up to the ceiling 100.
C13_PriorityRampsToCeiling ==
    /\ am.priority10 >= 500
    /\ am.priority10 <= 1000
    /\ ret.op = "none" => am.priority10 = 500
    /\ ret.op = "AttackMission._onAiUpdate" =>
          /\ am.priority10 >= ret.priorityBefore
          /\ am.priority10 # ret.priorityBefore => AttackRequestedMissing
          /\ ret.action.type = "requestUnits" =>
                /\ AttackRequestedMissing
                /\ ret.action.priority10 = am.priority10
                /\ \/ 10 * am.priority10 <= 12 * ret.priorityBefore
                      /\ 10 * am.priority10 > 12 * ret.priorityBefore - 10
                   \/ am.priority10 = 1000 /\ 12 * ret.priorityBefore >= 10000

\* A request raises the priority from 86.4 to the ceiling 100, where 1.2 times
\* 86.4 would be 103.68.
C13_Witness ==
    /\ ret.op = "AttackMission._onAiUpdate"
    /\ AttackRequestedMissing
    /\ ret.priorityBefore = 864
    /\ am.priority10 = 1000

----------------------------------------------------------------------------
(* ScoutingMission *)

SCOUT_MOVE_COOLDOWN_TICKS == 30

MAX_ATTEMPTS_PER_TARGET == 5

MAX_TICKS_PER_TARGET == 600

\* the overall visibility above which the mission disbands, in percent
VISIBILITY_DISBAND_PERCENT == 90

STUCK_THRESHOLD_TICKS == 150

MIN_MOVEMENT_THRESHOLD == 2

SCOUT_COOLDOWN_TICKS == 300

\* the priority ScoutingMissionFactory gives "globalScout", in tenths
SCOUT_MISSION_PRIORITY10 == 100

landScoutNames == {"ADOG", "DOG", "E1", "E2", "FV", "HTK"}

waterScoutNames == {"DEST"}

\* null where the code expects a PrioritisedScoutTarget
NoTarget == <<>>

\* this.scoutMinDistance === undefined
Undefined == -1

disbandMission == [type |-> "disband"]

\* an Error thrown out of the update
thrown == [type |-> "throw"]

\* gameApi.mapApi.getTile(x, y) !== undefined
TileExists(p) ==
    /\ p[1] >= 0 /\ p[1] < RealMapSize.width
    /\ p[2] >= 0 /\ p[2] < RealMapSize.height

\* tile.terrainType === TerrainType.Water, on the tile the world names
IsWaterTile(w, p) == p \in w.waterTiles

\* The empty Map
EmptyMap == [u \in {} |-> 0]

NewScoutingMission(priority10) ==
    [ priority10              |-> priority10,
      scoutTarget             |-> NoPoint,
      attemptsOnCurrentTarget |-> 0,
      scoutTargetRefreshedAt  |-> 0,
      lastMoveCommandTick     |-> 0,
      scoutTargetIsPermanent  |-> FALSE,
      isWaterTarget           |-> FALSE,
      scoutMinDistanceSq      |-> Undefined,
      lastScoutPositions      |-> EmptyMap,
      stuckStartTime          |-> EmptyMap,
      exploredWaterTiles      |-> {},
      exploredLandTiles       |-> {},
      hadUnit                 |-> FALSE ]

setScoutTarget(m, w, target, currentTick) ==
    [ m EXCEPT
        !.attemptsOnCurrentTarget = 0,
        !.scoutTargetRefreshedAt  = currentTick,
        !.scoutTarget             = IF target = NoTarget THEN NoPoint ELSE target.pos,
        !.scoutMinDistanceSq      = Undefined,
        !.scoutTargetIsPermanent  = IF target = NoTarget THEN FALSE ELSE target.permanent,
        !.isWaterTarget           = IF target = NoTarget THEN FALSE
                                    ELSE TileExists(target.pos) /\ IsWaterTile(w, target.pos) ]

\* The least value of a non-empty Map's values
MinOfMap(f) == CHOOSE v \in { f[u] : u \in DOMAIN f } : \A u \in DOMAIN f : v <= f[u]

\* checkUnitsStuck: a scout seen before that moved less than
\* MIN_MOVEMENT_THRESHOLD starts its timer, one that moved further clears it;
\* the answer is true when no scout seen before has moved and the oldest
\* timer of the map has run STUCK_THRESHOLD_TICKS.
checkUnitsStuck(m, w, scouts, currentTick) ==
    LET seen(u)  == u \in DOMAIN m.lastScoutPositions
        still(u) == SqDist(w.unitTile[u], m.lastScoutPositions[u])
                        < MIN_MOVEMENT_THRESHOLD * MIN_MOVEMENT_THRESHOLD
        started  == { u \in scouts : seen(u) /\ still(u) }
        cleared  == { u \in scouts : seen(u) /\ ~still(u) }
        timers   == [ u \in (DOMAIN m.stuckStartTime \cup started) \ cleared |->
                        IF u \in DOMAIN m.stuckStartTime
                        THEN m.stuckStartTime[u] ELSE currentTick ]
        positions == [ u \in DOMAIN m.lastScoutPositions \cup scouts |->
                        IF u \in scouts THEN w.unitTile[u]
                        ELSE m.lastScoutPositions[u] ]
        allUnitsStuck == scouts # {} /\ cleared = {}
    IN  [ m     |-> [m EXCEPT !.lastScoutPositions = positions,
                              !.stuckStartTime = timers],
          stuck |-> /\ allUnitsStuck
                    /\ DOMAIN timers # {}
                    /\ currentTick - MinOfMap(timers) >= STUCK_THRESHOLD_TICKS ]

clearStuckTracking(m) ==
    [m EXCEPT !.lastScoutPositions = EmptyMap, !.stuckStartTime = EmptyMap]

markTileExplored(m, position, isWater) ==
    IF isWater
    THEN [m EXCEPT !.exploredWaterTiles = @ \cup {position}]
    ELSE [m EXCEPT !.exploredLandTiles = @ \cup {position}]

\* findNextTarget: the nearest unexplored, unseen tile of the wanted terrain
\* connected to the current position; the world carries the search's answer.
findNextTarget(m, w, currentPosition, isWater) ==
    LET explored == IF isWater THEN m.exploredWaterTiles ELSE m.exploredLandTiles
    IN  IF /\ w.nextLocalTarget # NoPoint
           /\ w.nextLocalTarget \notin explored
           /\ w.nextLocalTarget \notin w.visibleTiles
           /\ IsWaterTile(w, w.nextLocalTarget) = isWater
        THEN w.nextLocalTarget
        ELSE NoPoint

\* this.getUnitsOfTypes(gameApi, ...names): the mission's living units of
\* the named types
getUnitsOfTypes(w, units, names) ==
    { u \in units : u \in w.alive /\ w.unitType[u] \in names }

\* One order of actionsApi.orderUnits per scout
ScoutOrders(scouts, target) ==
    { [unit |-> u, order |-> "AttackMove", target |-> target] : u \in scouts }

\* The move-command part of the update with the attempts of the target
\* forgotten whenever its timer is restarted.
ScoutMoveCommand_ResetsAttempts(m, w, scouts, currentTick) ==
    LET newMinSq == CHOOSE d \in { SqDist(w.unitTile[u], m.scoutTarget) : u \in scouts } :
                        \A u \in scouts : d <= SqDist(w.unitTile[u], m.scoutTarget)
        closer   == \/ m.scoutMinDistanceSq = Undefined
                    \/ m.scoutMinDistanceSq = 0
                    \/ newMinSq < m.scoutMinDistanceSq
        m1       == [m EXCEPT !.lastMoveCommandTick = currentTick]
    IN  IF closer
        THEN [m1 EXCEPT !.scoutTargetRefreshedAt = currentTick,
                        !.scoutMinDistanceSq = newMinSq,
                        !.attemptsOnCurrentTarget = 0]
        ELSE m1

\* The move-command part of the update, run when the cooldown has passed:
\* order every scout to the target and restart the target's timer when the
\* nearest scout is closer than the least distance recorded so far.
ScoutMoveCommand(m, w, scouts, currentTick) ==
    LET newMinSq == CHOOSE d \in { SqDist(w.unitTile[u], m.scoutTarget) : u \in scouts } :
                        \A u \in scouts : d <= SqDist(w.unitTile[u], m.scoutTarget)
        closer   == \/ m.scoutMinDistanceSq = Undefined
                    \/ m.scoutMinDistanceSq = 0
                    \/ newMinSq < m.scoutMinDistanceSq
        m1       == [m EXCEPT !.lastMoveCommandTick = currentTick]
    IN  IF closer
        THEN [m1 EXCEPT !.scoutTargetRefreshedAt = currentTick,
                        !.scoutMinDistanceSq = newMinSq]
        ELSE m1

\* The part of the update that follows the checks of a non-permanent target,
\* without the comparison of the target's terrain with the scouting mode.
ScoutTowardsTarget_AnyTerrain(m, w, scouts, currentTick) ==
    IF ~TileExists(m.scoutTarget)
    THEN [m |-> m, action |-> thrown, orders |-> {}]
    ELSE
        LET moving == currentTick > m.lastMoveCommandTick + SCOUT_MOVE_COOLDOWN_TICKS
            m1     == IF moving THEN ScoutMoveCommand(m, w, scouts, currentTick) ELSE m
            orders == IF moving THEN ScoutOrders(scouts, m.scoutTarget) ELSE {}
        IN  IF m.scoutTarget \in w.visibleTiles
            THEN LET m2 == markTileExplored(m1, m1.scoutTarget, m1.isWaterTarget)
                     nextTarget == findNextTarget(m2, w, m2.scoutTarget, m2.isWaterTarget)
                 IN  IF nextTarget # NoPoint
                     THEN [m |-> [m2 EXCEPT !.scoutTarget = nextTarget,
                                            !.scoutTargetRefreshedAt = currentTick,
                                            !.scoutMinDistanceSq = Undefined],
                           action |-> noop, orders |-> orders]
                     ELSE [m |-> setScoutTarget(m2, w, NoTarget, currentTick),
                           action |-> noop, orders |-> orders]
            ELSE [m |-> m1, action |-> noop, orders |-> orders]

\* The part of the update that follows the checks of a non-permanent target.
ScoutTowardsTarget(m, w, scouts, currentTick) ==
    IF ~TileExists(m.scoutTarget)
    THEN [m |-> m, action |-> thrown, orders |-> {}]
    ELSE IF IsWaterTile(w, m.scoutTarget) # m.isWaterTarget
    THEN [m |-> setScoutTarget(m, w, NoTarget, 0), action |-> noop, orders |-> {}]
    ELSE
        LET moving == currentTick > m.lastMoveCommandTick + SCOUT_MOVE_COOLDOWN_TICKS
            m1     == IF moving THEN ScoutMoveCommand(m, w, scouts, currentTick) ELSE m
            orders == IF moving THEN ScoutOrders(scouts, m.scoutTarget) ELSE {}
        IN  IF m.scoutTarget \in w.visibleTiles
            THEN LET m2 == markTileExplored(m1, m1.scoutTarget, m1.isWaterTarget)
                     nextTarget == findNextTarget(m2, w, m2.scoutTarget, m2.isWaterTarget)
                 IN  IF nextTarget # NoPoint
                     THEN [m |-> [m2 EXCEPT !.scoutTarget = nextTarget,
                                            !.scoutTargetRefreshedAt = currentTick,
                                            !.scoutMinDistanceSq = Undefined],
                           action |-> noop, orders |-> orders]
                     ELSE [m |-> setScoutTarget(m2, w, NoTarget, currentTick),
                           action |-> noop, orders |-> orders]
            ELSE [m |-> m1, action |-> noop, orders |-> orders]

\* (getOverallVisibility() || 0) > 0.9 at its limit; the visibility is kept
\* in percent and Undefined where the sector cache has none
OverallVisibilityReached_AtLimit(w) ==
    (IF w.overallVisibility = Undefined THEN 0 ELSE w.overallVisibility)
        >= VISIBILITY_DISBAND_PERCENT

\* (getOverallVisibility() || 0) > 0.9
OverallVisibilityReached(w) ==
    (IF w.overallVisibility = Undefined THEN 0 ELSE w.overallVisibility)
        > VISIBILITY_DISBAND_PERCENT

\* currentTick > scoutTargetRefreshedAt + MAX_TICKS_PER_TARGET at its limit
ScoutTargetTimedOut_AtLimit(m, currentTick) ==
    currentTick >= m.scoutTargetRefreshedAt + MAX_TICKS_PER_TARGET

\* currentTick > scoutTargetRefreshedAt + MAX_TICKS_PER_TARGET
ScoutTargetTimedOut(m, currentTick) ==
    currentTick > m.scoutTargetRefreshedAt + MAX_TICKS_PER_TARGET

\* ScoutingMission._onAiUpdate on the units the mission holds: the mission
\* after the update, the action returned and the orders given to the game.
ScoutingMission_onAiUpdate(m, w, units, currentTick) ==
    LET scoutNames == IF m.isWaterTarget THEN waterScoutNames ELSE landScoutNames
        scouts     == getUnitsOfTypes(w, units, scoutNames)
    IN  IF OverallVisibilityReached(w)
        THEN [m |-> m, action |-> disbandMission, orders |-> {}]
        ELSE IF scouts = {}
        THEN [m |-> IF m.scoutTarget # NoPoint /\ m.hadUnit
                    THEN [m EXCEPT !.attemptsOnCurrentTarget = @ + 1, !.hadUnit = FALSE]
                    ELSE m,
              action |-> requestUnits(scoutNames, m.priority10), orders |-> {}]
        ELSE IF m.scoutTarget # NoPoint
        THEN LET m1 == [m EXCEPT !.hadUnit = TRUE]
             IN  IF m1.scoutTargetIsPermanent
                 THEN ScoutTowardsTarget(m1, w, scouts, currentTick)
                 ELSE LET chk == IF m1.isWaterTarget
                                 THEN [m |-> m1, stuck |-> FALSE]
                                 ELSE checkUnitsStuck(m1, w, scouts, currentTick)
                      IN  IF chk.stuck
                          THEN [m |-> clearStuckTracking([chk.m EXCEPT !.isWaterTarget = TRUE]),
                                action |-> requestUnits(waterScoutNames, m.priority10),
                                orders |-> {}]
                          ELSE IF chk.m.attemptsOnCurrentTarget > MAX_ATTEMPTS_PER_TARGET
                          THEN [m |-> setScoutTarget(chk.m, w, NoTarget, 0),
                                action |-> noop, orders |-> {}]
                          ELSE IF ScoutTargetTimedOut(chk.m, currentTick)
                          THEN [m |-> setScoutTarget(chk.m, w, NoTarget, 0),
                                action |-> noop, orders |-> {}]
                          ELSE ScoutTowardsTarget(chk.m, w, scouts, currentTick)
        ELSE IF w.newScoutTarget = NoTarget
        THEN [m |-> m, action |-> disbandMission, orders |-> {}]
        ELSE [m |-> setScoutTarget(m, w, w.newScoutTarget, currentTick),
              action |-> noop, orders |-> {}]

----------------------------------------------------------------------------
(* The missions as the controller holds them, and the factories *)

VISIBLE_TARGET_ATTACK_COOLDOWN_TICKS == 60

BASE_ATTACK_COOLDOWN_TICKS == 900

\* matchAwareness.getMainRallyPoint()
MainRallyPoint == <<0, 0>>

RECURSIVE Digits(_)
\* The decimal digits that "" + n appends to a string
Digits(n) == IF n < 10 THEN <<n>> ELSE Digits(n \div 10) \o <<n % 10>>

\* A mission object: its unique name, the unit ids it owns, the fields of
\* its class in m, and id, the identity of the object.
NewMission(kind, uniqueName, unitIds, m) ==
    [id |-> 0, name |-> uniqueName, kind |-> kind, units |-> unitIds, m |-> m]

\* new RetreatMission(uniqueName, rallyPoint, unitIds)
NewRetreatMission(uniqueName, rallyPoint, unitIds) ==
    NewMission("retreat", uniqueName, unitIds, [rallyPoint |-> rallyPoint])

MissionNames(missions) == { missions[i].name : i \in DOMAIN missions }

MissionIds(missions) == { missions[i].id : i \in DOMAIN missions }

\* addMission accepting any name: the duplicate check is left out.
addMission_NoDuplicateCheck(c, mission) ==
    LET dup     == mission.name \in MissionNames(c.missions)
        missions == Append(c.missions, [mission EXCEPT !.id = c.nextId])
    IN  [ c  |-> [c EXCEPT !.missions = missions,
                           !.nextId = @ + 1,
                           !.calls = Append(@, [name |-> mission.name, ok |-> TRUE,
                                                dup |-> dup, same |-> FALSE])],
          ok |-> TRUE ]

\* MissionController.addMission: false, and nothing added, when a mission of
\* that name is active; else the mission joins the end of the list.  calls
\* logs the call for the properties.
addMission(c, mission) ==
    LET dup      == mission.name \in MissionNames(c.missions)
        missions == IF dup THEN c.missions
                    ELSE Append(c.missions, [mission EXCEPT !.id = c.nextId])
    IN  [ c  |-> [c EXCEPT !.missions = missions,
                           !.nextId = IF dup THEN @ ELSE @ + 1,
                           !.calls = Append(@, [name |-> mission.name, ok |-> ~dup,
                                                dup |-> dup,
                                                same |-> missions = c.missions])],
          ok |-> ~dup ]

\* matchAwareness.getScoutingManager().hasScoutTargets()
hasScoutTargets(w) == w.newScoutTarget # NoTarget

GlobalScout == <<"globalScout">>

ScoutingMissionFactory_maybeCreateMissions(c, w, currentTick) ==
    IF currentTick < c.lastScoutAt + SCOUT_COOLDOWN_TICKS THEN c
    ELSE IF ~hasScoutTargets(w) THEN c
    ELSE LET r == addMission(c, NewMission("scout", GlobalScout, {},
                                           NewScoutingMission(SCOUT_MISSION_PRIORITY10)))
         IN  IF ~r.ok THEN [r.c EXCEPT !.lastScoutAt = currentTick] ELSE r.c

ScoutingMissionFactory_onMissionFailed(c, w, currentTick, failedMission) ==
    IF currentTick < c.lastScoutAt + SCOUT_COOLDOWN_TICKS THEN c
    ELSE IF ~hasScoutTargets(w) THEN c
    ELSE IF failedMission.kind = "attack"
    THEN [ addMission(c, NewMission("scout", GlobalScout, {},
                                    NewScoutingMission(SCOUT_MISSION_PRIORITY10))).c
             EXCEPT !.lastScoutAt = currentTick ]
    ELSE c

\* getAlliedCompositions for a player with no war factory, air force command
\* or battle lab
calculateTargetComposition == [E1 |-> 5]

\* generateTarget: the tile of the visible enemy unit of the greatest weight
\* (hit points the model does not carry: any of them), else the start of an
\* unexplored enemy when base locations are included, else null.
generateTarget(w, includeBaseLocations) ==
    LET enemyUnits == { h \in w.hostiles : ~h.neutral }
    IN  IF enemyUnits # {} THEN { h.pos : h \in enemyUnits }
        ELSE IF includeBaseLocations /\ w.unexploredEnemyStarts # {}
        THEN w.unexploredEnemyStarts
        ELSE {NoPoint}

\* The callback AttackMissionFactory hands to then(): all units of the player
\* are passed on instead of the ids the callback receives.
AttackMission_onFinish_AllUnits(c, w, currentTick, squadName, unitIds) ==
    addMission(c, NewRetreatMission(<<"retreat-from-">> \o squadName \o Digits(currentTick),
                                    MainRallyPoint, w.alive)).c

\* The callback AttackMissionFactory hands to then()
AttackMission_onFinish(c, w, currentTick, squadName, unitIds) ==
    addMission(c, NewRetreatMission(<<"retreat-from-">> \o squadName \o Digits(currentTick),
                                    MainRallyPoint, unitIds)).c

\* AttackMissionFactory.maybeCreateMissions without the test for an
\* AttackMission that is Preparing
AttackMissionFactory_maybeCreateMissions_NoPreparingTest(c, w, currentTick) ==
    IF currentTick < c.lastAttackAt + VISIBLE_TARGET_ATTACK_COOLDOWN_TICKS THEN {c}
    ELSE LET includeEnemyBases == currentTick > c.lastAttackAt + BASE_ATTACK_COOLDOWN_TICKS
             squadName == <<"attack_">> \o Digits(currentTick)
             made(attackArea) ==
                 addMission(c, NewMission("attack", squadName, {},
                                NewAttackMission(attackArea, calculateTargetComposition,
                                                 WallClockNow)))
         IN  { IF attackArea = NoPoint THEN c
               ELSE IF made(attackArea).ok
               THEN [made(attackArea).c EXCEPT !.lastAttackAt = currentTick]
               ELSE made(attackArea).c :
               attackArea \in generateTarget(w, includeEnemyBases) }

\* AttackMissionFactory.maybeCreateMissions without the test of its cooldown
AttackMissionFactory_maybeCreateMissions_NoCooldown(c, w, currentTick) ==
    IF \E i \in DOMAIN c.missions :
           c.missions[i].kind = "attack" /\ c.missions[i].m.state = "Preparing"
    THEN {c}
    ELSE LET includeEnemyBases == currentTick > c.lastAttackAt + BASE_ATTACK_COOLDOWN_TICKS
             squadName == <<"attack_">> \o Digits(currentTick)
             made(attackArea) ==
                 addMission(c, NewMission("attack", squadName, {},
                                NewAttackMission(attackArea, calculateTargetComposition,
                                                 WallClockNow)))
         IN  { IF attackArea = NoPoint THEN c
               ELSE IF made(attackArea).ok
               THEN [made(attackArea).c EXCEPT !.lastAttackAt = currentTick]
               ELSE made(attackArea).c :
               attackArea \in generateTarget(w, includeEnemyBases) }

\* AttackMissionFactory.maybeCreateMissions: the controllers it can leave
AttackMissionFactory_maybeCreateMissions(c, w, currentTick) ==
    IF currentTick < c.lastAttackAt + VISIBLE_TARGET_ATTACK_COOLDOWN_TICKS THEN {c}
    ELSE IF \E i \in DOMAIN c.missions :
                c.missions[i].kind = "attack" /\ c.missions[i].m.state = "Preparing"
    THEN {c}
    ELSE LET includeEnemyBases == currentTick > c.lastAttackAt + BASE_ATTACK_COOLDOWN_TICKS
             squadName == <<"attack_">> \o Digits(currentTick)
             made(attackArea) ==
                 addMission(c, NewMission("attack", squadName, {},
                                NewAttackMission(attackArea, calculateTargetComposition,
                                                 WallClockNow)))
         IN  { IF attackArea = NoPoint THEN c
               ELSE IF made(attackArea).ok
               THEN [made(attackArea).c EXCEPT !.lastAttackAt = currentTick]
               ELSE made(attackArea).c :
               attackArea \in generateTarget(w, includeEnemyBases) }

----------------------------------------------------------------------------
(* MissionController.onAiUpdate *)

\* What an AttackMission reads from the game: the awareness, the units it
\* holds counted by type, and their mean position.
AttackView(w, mission) ==
    LET units == mission.units \cap w.alive
        types == { w.unitType[u] : u \in units }
    IN  [ hostiles        |-> w.hostiles,
          alliedBuildings |-> w.alliedBuildings,
          held            |-> [ty \in types |->
                                 Cardinality({ u \in units : w.unitType[u] = ty })],
          centerOfMass    |-> IF units = {} THEN NoPoint ELSE w.centerOfMass ]

\* RetreatMission's update: the units are sent to the rally point and the
\* mission is over.
RetreatMission_onAiUpdate(mission, w, currentTick) == disbandMission

\* Mission.onAiUpdate: the update of the mission's class; what it can leave
\* as the mission and the action it returns.
Mission_onAiUpdate(mission, w, currentTick) ==
    IF mission.kind = "attack"
    THEN { [mission |-> [mission EXCEPT !.m = o.m], action |-> o.action] :
             o \in AttackMission_onAiUpdate(mission.m, AttackView(w, mission), currentTick) }
    ELSE IF mission.kind = "scout"
    THEN LET o == ScoutingMission_onAiUpdate(mission.m, w, mission.units, currentTick)
         IN  { [mission |-> [mission EXCEPT !.m = o.m], action |-> o.action] }
    ELSE { [mission |-> mission,
            action |-> RetreatMission_onAiUpdate(mission, w, currentTick)] }

RECURSIVE UpdateFrom_StopsAtThrow(_, _, _, _)
\* The updates of missions[i..] with an error left uncaught: the missions
\* after the one whose update threw are not updated in the tick.
UpdateFrom_StopsAtThrow(missions, w, currentTick, i) ==
    IF i > Len(missions) THEN { [missions |-> <<>>, actions |-> <<>>] }
    ELSE UNION { IF o.action = thrown
                 THEN { [missions |-> <<o.mission>> \o SubSeq(missions, i + 1, Len(missions)),
                         actions  |-> <<o.action>>] }
                 ELSE { [missions |-> <<o.mission>> \o rest.missions,
                         actions  |-> <<o.action>> \o rest.actions] :
                          rest \in UpdateFrom_StopsAtThrow(missions, w, currentTick, i + 1) } :
                 o \in Mission_onAiUpdate(missions[i], w, currentTick) }

RECURSIVE UpdateFrom(_, _, _, _)
\* The updates of missions[i..] in creation order: the missions they leave
\* and the actions they return.
UpdateFrom(missions, w, currentTick, i) ==
    IF i > Len(missions) THEN { [missions |-> <<>>, actions |-> <<>>] }
    ELSE { [missions |-> <<o.mission>> \o rest.missions,
            actions  |-> <<o.action>> \o rest.actions] :
             o \in Mission_onAiUpdate(missions[i], w, currentTick),
             rest \in UpdateFrom(missions, w, currentTick, i + 1) }

\* Mission.isUnitsLocked: true unless the class overrides it
Mission_isUnitsLocked(mission) ==
    IF mission.kind = "attack" THEN AttackMission_isUnitsLocked(mission.m) ELSE TRUE

Mission_getPriority10(mission) ==
    IF mission.kind = "retreat" THEN 0 ELSE mission.m.priority10

OwnedUnits(missions) == UNION { missions[i].units : i \in DOMAIN missions }

\* The idle units with every living unit counted as idle, owned or not.
IdleUnits_IgnoreOwners(missions, w) == w.alive

\* The units no mission owns
IdleUnits(missions, w) == w.alive \ OwnedUnits(missions)

\* The units a request of mission i at the given priority can be served
\* from: the idle ones, and those of unlocked missions of lower priority.
AvailableUnits(missions, w, i, priority10) ==
    IdleUnits(missions, w) \cup
    UNION { missions[j].units :
              j \in { k \in DOMAIN missions :
                        /\ k # i
                        /\ ~Mission_isUnitsLocked(missions[k])
                        /\ Mission_getPriority10(missions[k]) < priority10 } }

\* Whether the mission still lacks a unit of the type: an attack mission up
\* to the count of its composition, a scouting mission its one scout.
StillWants(mission, w, unitNames, ty) ==
    LET have(names) == Cardinality({ u \in mission.units \cap w.alive :
                                       w.unitType[u] \in names })
    IN  IF mission.kind = "attack"
        THEN /\ ty \in DOMAIN mission.m.composition
             /\ have({ty}) < mission.m.composition[ty]
        ELSE have(unitNames) < 1

\* Unit u is given to mission i and leaves the mission that held it.
GrantUnit(missions, i, u) ==
    [ j \in DOMAIN missions |->
        IF j = i THEN [missions[j] EXCEPT !.units = @ \cup {u}]
        ELSE [missions[j] EXCEPT !.units = @ \ {u}] ]

RECURSIVE ServeRequest(_, _, _, _)
\* One RequestUnits action served: units of the requested types are handed
\* to mission i, lowest id first, while it lacks one and one is available.
ServeRequest(missions, w, i, action) ==
    LET candidates == { u \in AvailableUnits(missions, w, i, action.priority10) :
                          /\ w.unitType[u] \in action.unitNames
                          /\ StillWants(missions[i], w, action.unitNames, w.unitType[u]) }
    IN  IF candidates = {} THEN missions
        ELSE LET u == CHOOSE x \in candidates : \A y \in candidates : x <= y
             IN  ServeRequest(GrantUnit(missions, i, u), w, i, action)

\* Request j is served before request i: lower priority first.
ServedBefore_Ascending(actions, j, i) ==
    \/ actions[j].priority10 < actions[i].priority10
    \/ actions[j].priority10 = actions[i].priority10 /\ j < i

\* Request j is served before request i: higher priority first, creation
\* order among equal priorities.
ServedBefore(actions, j, i) ==
    \/ actions[j].priority10 > actions[i].priority10
    \/ actions[j].priority10 = actions[i].priority10 /\ j < i

RECURSIVE ServeAll(_, _, _, _)
\* The requests of the set pending served one after the other
ServeAll(missions, actions, w, pending) ==
    IF pending = {} THEN missions
    ELSE LET i == CHOOSE x \in pending :
                      \A y \in pending \ {x} : ServedBefore(actions, x, y)
         IN  ServeAll(ServeRequest(missions, w, i, actions[i]), actions, w,
                      pending \ {i})

\* The allocation auction over the actions the updates returned
Auction(missions, actions, w) ==
    ServeAll(missions, actions, w,
             { i \in DOMAIN actions : actions[i].type = "requestUnits" })

\* The mission is over after its update: it returned Disband, its update
\* threw, or it holds no unit and asks for none.
MissionEnded(mission, action) ==
    \/ action.type \in {"disband", "throw"}
    \/ mission.units = {} /\ action.type # "requestUnits"

\* Removal that looks at the units only and not at the action returned
EndedIndices_KeepDisbanded(missions, actions) ==
    { i \in DOMAIN actions : missions[i].units = {} /\ actions[i].type # "requestUnits" }

EndedIndices(missions, actions) ==
    { i \in DOMAIN actions : MissionEnded(missions[i], actions[i]) }

RECURSIVE SelectSeq2(_, _)
\* the missions of the list that are not in the set of ids gone
SelectSeq2(missions, gone) ==
    IF missions = <<>> THEN <<>>
    ELSE IF Head(missions).id \in gone THEN SelectSeq2(Tail(missions), gone)
    ELSE <<Head(missions)>> \o SelectSeq2(Tail(missions), gone)

RECURSIVE FinishAll_SurvivorsOnly(_, _, _, _)
\* The callbacks run only for the ended missions that still hold a unit.
FinishAll_SurvivorsOnly(c, w, currentTick, ended) ==
    IF ended = <<>> THEN c
    ELSE LET mission == Head(ended)
             c1 == IF mission.kind = "attack" /\ mission.units \cap w.alive # {}
                   THEN AttackMission_onFinish(c, w, currentTick, mission.name,
                                               mission.units \cap w.alive)
                   ELSE c
         IN  FinishAll_SurvivorsOnly(c1, w, currentTick, Tail(ended))

RECURSIVE FinishAll(_, _, _, _)
\* The callbacks registered with then() run for the ended missions, in list
\* order; only AttackMissionFactory registers one.
FinishAll(c, w, currentTick, ended) ==
    IF ended = <<>> THEN c
    ELSE LET mission == Head(ended)
             c1 == IF mission.kind = "attack"
                   THEN AttackMission_onFinish(c, w, currentTick, mission.name,
                                               mission.units \cap w.alive)
                   ELSE c
         IN  FinishAll(c1, w, currentTick, Tail(ended))

RECURSIVE NotifyAll(_, _, _, _)
\* Every factory's onMissionFailed runs for the ended missions;
\* AttackMissionFactory's does nothing.
NotifyAll(c, w, currentTick, ended) ==
    IF ended = <<>> THEN c
    ELSE NotifyAll(ScoutingMissionFactory_onMissionFailed(c, w, currentTick, Head(ended)),
                   w, currentTick, Tail(ended))

\* The last step of the tick: the ended missions give up their units, their
\* then() callbacks run, they leave the list, and the factories are told.
RemoveEnded(c, actions, w, currentTick) ==
    LET idx   == EndedIndices(c.missions, actions)
        ended == SelectSeq2(c.missions, MissionIds(c.missions) \ { c.missions[i].id : i \in idx })
        gone  == { c.missions[i].id : i \in idx }
        c1    == FinishAll(c, w, currentTick, ended)
        c2    == [c1 EXCEPT !.missions = SelectSeq2(c1.missions, gone)]
    IN  NotifyAll(c2, w, currentTick, ended)

\* The units that no longer exist leave the missions that held them.
DropDeadUnits(missions, w) ==
    [ i \in DOMAIN missions |-> [missions[i] EXCEPT !.units = @ \cap w.alive] ]

\* MissionController.onAiUpdate: factories, updates in creation order, the
\* auction, removal.  The results it can have: the controller it leaves and
\* the action each mission returned.
MissionController_onAiUpdate(c, w, currentTick) ==
    LET c0 == [c EXCEPT !.missions = DropDeadUnits(c.missions, w), !.calls = <<>>]
        c1 == ScoutingMissionFactory_maybeCreateMissions(c0, w, currentTick)
    IN  UNION { { [ c |-> RemoveEnded([c2 EXCEPT !.missions =
                                          Auction(upd.missions, upd.actions, w)],
                                      upd.actions, w, currentTick),
                    actions |-> [ i \in DOMAIN upd.actions |->
                                    [id |-> c2.missions[i].id,
                                     name |-> c2.missions[i].name,
                                     type |-> upd.actions[i].type] ] ] :
                  upd \in UpdateFrom(c2.missions, w, currentTick, 1) } :
                c2 \in AttackMissionFactory_maybeCreateMissions(c1, w, currentTick) }

NewMissionController ==
    [ missions     |-> <<>>,
      nextId       |-> 1,
      lastAttackAt |-> -VISIBLE_TARGET_ATTACK_COOLDOWN_TICKS,
      lastScoutAt  |-> -SCOUT_COOLDOWN_TICKS,
      calls        |-> <<>> ]

----------------------------------------------------------------------------
(* SpecController: the controller ticking in a world that changes *)

\* the clock stops at MaxControllerTicks * 60
MaxControllerTicks == 5

\* the most units the player ever gets
MaxUnits == 4

\* ticks between two updates of the controller
ControllerSteps == {60}

\* the scouting target the scouting manager hands out
ScoutTargetUniverse == { [pos |-> <<30, 30>>, permanent |-> TRUE] }

\* The worlds the controller can meet on its next update: a unit may have
\* been produced, a unit may have died, the visibility and the scouting
\* manager's answer are free; the rest of the world stays.
ControllerWorlds(w) ==
    { [ w EXCEPT !.born = b, !.alive = (w.alive \ dead) \cup ((w.born + 1)..b),
                 !.overallVisibility = v, !.newScoutTarget = s ] :
        b \in { w.born, Min(w.born + 1, MaxUnits) },
        dead \in {{}} \cup { {u} : u \in w.alive },
        v \in {0, 95},
        s \in ScoutTargetUniverse \cup {NoTarget} }

ControllerInit ==
    /\ tick = 0
    /\ am = Idle
    /\ sq = Idle
    /\ mc = NewMissionController
    /\ \E b \in 0..MaxUnits, hs \in { {}, { [pos |-> <<10, 0>>, kind |-> "combatant",
                                             neutral |-> FALSE, naval |-> FALSE] } } :
          world = [ born |-> b, alive |-> 1..b,
                    unitType |-> [u \in 1..MaxUnits + 1 |-> "E1"],
                    unitTile |-> [u \in 1..MaxUnits + 1 |-> MainRallyPoint],
                    centerOfMass |-> MainRallyPoint,
                    hostiles |-> hs, alliedBuildings |-> {},
                    unexploredEnemyStarts |-> {},
                    overallVisibility |-> 0, newScoutTarget |-> NoTarget,
                    waterTiles |-> {}, visibleTiles |-> {},
                    nextLocalTarget |-> NoPoint ]
    /\ ret = [op |-> "none"]
    /\ hist = [calls |-> <<>>, disbanded |-> {}]

ControllerTick ==
    \E dt \in ControllerSteps, w \in ControllerWorlds(world) :
        /\ tick + dt <= MaxControllerTicks * 60
        /\ \E r \in MissionController_onAiUpdate(mc, w, tick + dt) :
              /\ mc' = [r.c EXCEPT !.calls = <<>>]
              /\ ret' = [op |-> "MissionController.onAiUpdate", actions |-> r.actions]
              /\ hist' = [calls |-> r.c.calls,
                          disbanded |-> hist.disbanded \cup
                              { r.actions[i].name : i \in
                                  { k \in DOMAIN r.actions : r.actions[k].type = "disband" } }]
        /\ tick' = tick + dt
        /\ world' = w
        /\ UNCHANGED <<am, sq>>

ControllerNext == ControllerTick

SpecController == ControllerInit /\ [][ControllerNext]_vars

LockedMission(mission) ==
    IF mission.kind = "attack" THEN mission.m.state # "Preparing" ELSE TRUE

\* the mission of the list with the given id
MissionById(missions, id) ==
    missions[CHOOSE i \in DOMAIN missions : missions[i].id = id]

\* C2: over a tick, a locked mission whose own update did not end it (it
\* returned neither Disband nor threw) stays active with every unit it owned
\* that is still alive; the controller gives none of them to another
\* mission.
C2_LockedMissionKeepsUnits ==
    [][ \A i \in DOMAIN mc.missions :
          LET mission == mc.missions[i]
              living  == mission.units \cap world'.alive
              ownEnd  == \E k \in DOMAIN ret'.actions :
                            /\ ret'.actions[k].id = mission.id
                            /\ ret'.actions[k].type \in {"disband", "throw"}
          IN  (LockedMission(mission) /\ ~ownEnd /\ living # {})
              => /\ mission.id \in MissionIds(mc'.missions)
                 /\ living \subseteq MissionById(mc'.missions, mission.id).units ]_vars

\* An AttackMission past Preparing holds units while a later AttackMission,
\* of higher priority, asks for units and none is idle.
C2_Witness ==
    \E i, j \in DOMAIN mc.missions :
        /\ mc.missions[i].kind = "attack" /\ mc.missions[j].kind = "attack"
        /\ mc.missions[i].m.state = "Attacking"
        /\ mc.missions[i].units \cap world.alive # {}
        /\ mc.missions[j].m.state = "Preparing"
        /\ mc.missions[j].m.priority10 > mc.missions[i].m.priority10
        /\ IdleUnits(mc.missions, world) = {}
        /\ \E k \in DOMAIN ret.actions :
              ret.actions[k].id = mc.missions[j].id /\ ret.actions[k].type = "requestUnits"

\* the ids of the missions whose update returned Disband in the last tick
DisbandedIds == { ret.actions[k].id :
                    k \in { x \in DOMAIN ret.actions : ret.actions[x].type = "disband" } }

\* C8: a mission whose update returned Disband is not in the list when the
\* tick is over nor after the next tick, and a mission enters the list only
\* through an addMission call of that tick that named it and succeeded.
C8_DisbandedMissionGone ==
    /\ [](ret.op = "MissionController.onAiUpdate"
            => DisbandedIds \cap MissionIds(mc.missions) = {})
    /\ [][ /\ ret.op = "MissionController.onAiUpdate"
              => DisbandedIds \cap MissionIds(mc'.missions) = {}
           /\ \A j \in DOMAIN mc'.missions :
                 mc'.missions[j].id \notin MissionIds(mc.missions)
                 => \E k \in DOMAIN hist'.calls :
                       /\ hist'.calls[k].name = mc'.missions[j].name
                       /\ hist'.calls[k].ok ]_vars

\* A "globalScout" has disbanded and left the list, and the factory has
\* added a mission of that name again on this tick.
C8_Witness ==
    /\ GlobalScout \in hist.disbanded
    /\ GlobalScout \in MissionNames(mc.missions)
    /\ \E k \in DOMAIN hist.calls : hist.calls[k].name = GlobalScout /\ hist.calls[k].ok
    /\ DisbandedIds \cap MissionIds(mc.missions) = {}

\* C9: an addMission call naming an active mission returns false and leaves
\* the list as it was, and the list never holds two missions named
\* "globalScout".
C9_DuplicateNameRejected ==
    /\ \A k \in DOMAIN hist.calls :
          hist.calls[k].dup => (~hist.calls[k].ok /\ hist.calls[k].same)
    /\ Cardinality({ i \in DOMAIN mc.missions : mc.missions[i].name = GlobalScout }) <= 1

\* The factory asked for "globalScout" while one was active and was refused.
C9_Witness ==
    /\ \E k \in DOMAIN hist.calls :
          /\ hist.calls[k].name = GlobalScout
          /\ hist.calls[k].dup /\ ~hist.calls[k].ok
    /\ GlobalScout \in MissionNames(mc.missions)

\* the AttackMissions of the list that the tick being taken removes
EndingAttackMissions ==
    { i \in DOMAIN mc.missions :
        /\ mc.missions[i].kind = "attack"
        /\ mc.missions[i].id \notin MissionIds(mc'.missions) }

\* the name the factory's callback gives the successor of a mission that
\* ends on the tick being taken
RetreatNameOf(mission) == <<"retreat-from-">> \o mission.name \o Digits(tick')

\* the units of the mission that live on and that no other mission than the
\* successors holds after the tick
SurvivorsOf(mission) ==
    (mission.units \cap world'.alive) \
        UNION { mc'.missions[j].units :
                  j \in { k \in DOMAIN mc'.missions : mc'.missions[k].kind # "retreat" } }

----------------------------------------------------------------------------
(* SpecAuction: one auction pass over drawn requests *)

\* the most idle units the pass is drawn to find
MaxAuctionUnits == 6

\* the priorities, in tenths, the two requests are drawn from
AuctionPriorities10 == {100, 500, 600}

\* A controller holding an attack mission and a scouting mission, neither
\* with a unit, added in the order given.
AuctionController(attackFirst) ==
    LET attack == NewMission("attack", <<"attack_">> \o Digits(0), {},
                             NewAttackMission(<<10, 0>>, calculateTargetComposition,
                                              WallClockNow))
        scout  == NewMission("scout", GlobalScout, {},
                             NewScoutingMission(SCOUT_MISSION_PRIORITY10))
        first  == IF attackFirst THEN attack ELSE scout
        second == IF attackFirst THEN scout ELSE attack
    IN  [ addMission(addMission(NewMissionController, first).c, second).c
            EXCEPT !.calls = <<>> ]

AuctionInit ==
    /\ tick = 0
    /\ am = Idle
    /\ sq = Idle
    /\ \E attackFirst \in BOOLEAN : mc = AuctionController(attackFirst)
    /\ \E k \in 0..MaxAuctionUnits :
          world = [ born |-> k, alive |-> 1..k,
                    unitType |-> [u \in 1..MaxAuctionUnits + 1 |-> "E1"] ]
    /\ ret = [op |-> "none"]
    /\ hist = [calls |-> <<>>, disbanded |-> {}]

\* Both missions ask for units, at the priorities drawn, and the auction runs.
AuctionPass ==
    \E pa \in AuctionPriorities10, ps \in AuctionPriorities10 :
        LET actions == [ i \in DOMAIN mc.missions |->
                           IF mc.missions[i].kind = "attack"
                           THEN requestUnits({"E1"}, pa)
                           ELSE requestUnits(landScoutNames, ps) ]
        IN  /\ ret.op = "none"
            /\ mc' = [mc EXCEPT !.missions = Auction(mc.missions, actions, world)]
            /\ ret' = [op |-> "Auction", actions |-> actions]
            /\ UNCHANGED <<tick, world, am, sq, hist>>

AuctionNext == AuctionPass

SpecAuction == AuctionInit /\ [][AuctionNext]_vars

\* the units a request asks for: the composition's count for the attack
\* mission, one scout for the scouting mission
AuctionWant(mission) ==
    IF mission.kind = "attack" THEN mission.m.composition["E1"] ELSE 1

\* C3: after an auction pass over two requests for the same unit type, the
\* request of strictly higher priority has been served first, up to what
\* was idle, and the other from what was left; with 5 idle units an attack
\* mission asking for 5 at priority 50 holds all 5 and a scouting mission
\* asking at priority 10 holds none.
C3_HigherPriorityServedFirst ==
    ret.op = "Auction" =>
        /\ \A a, b \in DOMAIN mc.missions :
              ret.actions[b].priority10 > ret.actions[a].priority10
              => LET gotB == Cardinality(mc.missions[b].units)
                     gotA == Cardinality(mc.missions[a].units)
                 IN  /\ gotB = Min(AuctionWant(mc.missions[b]), world.born)
                     /\ gotA = Min(AuctionWant(mc.missions[a]), world.born - gotB)
        /\ \A a, s \in DOMAIN mc.missions :
              ( /\ mc.missions[a].kind = "attack" /\ mc.missions[s].kind = "scout"
                /\ ret.actions[a].priority10 = 500 /\ ret.actions[s].priority10 = 100
                /\ world.born = 5 )
              => /\ Cardinality(mc.missions[a].units) = 5
                 /\ mc.missions[s].units = {}

\* The scenario of the claim has run: 5 idle units, the attack mission
\* asked at priority 50 and holds 5, the scouting mission asked at 10.
C3_Witness ==
    /\ ret.op = "Auction"
    /\ world.born = 5
    /\ \E a, s \in DOMAIN mc.missions :
          /\ mc.missions[a].kind = "attack" /\ mc.missions[s].kind = "scout"
          /\ a > s
          /\ ret.actions[a].priority10 = 500 /\ ret.actions[s].priority10 = 100
          /\ Cardinality(mc.missions[a].units) = 5
          /\ mc.missions[s].units = {}

----------------------------------------------------------------------------
(* NavalSquad (src/unnamed/part_005): constants, sea and water search *)

\* const TARGET_UPDATE_INTERVAL_TICKS
TARGET_UPDATE_INTERVAL_TICKS == 15

\* const GATHER_RATIO
GATHER_RATIO == 2

\* const MIN_GATHER_RADIUS
MIN_GATHER_RADIUS == 3

\* const MAX_GATHER_RADIUS
MAX_GATHER_RADIUS == 6

\* const STUCK_CHECK_INTERVAL
STUCK_CHECK_INTERVAL == 60

\* const STUCK_THRESHOLD
STUCK_THRESHOLD == 3

\* const STUCK_DISTANCE_THRESHOLD = 0.5, in tenths
STUCK_DISTANCE_THRESHOLD10 == 5

\* const RETREAT_DISTANCE
RETREAT_DISTANCE == 8

\* const PATHFINDING_WAIT_TICKS
PATHFINDING_WAIT_TICKS == 45

\* const MAX_STUCK_ATTEMPTS
MAX_STUCK_ATTEMPTS == 3

\* const WATER_SEARCH_RADIUS
WATER_SEARCH_RADIUS == 15

\* const MIN_WATER_OPENNESS
MIN_WATER_OPENNESS == 5

\* const PREFER_OPEN_WATER_WEIGHT = 2.0
PREFER_OPEN_WATER_WEIGHT == 2

\* const checkRadius = 3 of evaluateWaterArea
WATER_CHECK_RADIUS == 3

\* The sea the squad sails: a coast of land along the west edge of the map,
\* water everywhere east of it.
SeaLandColumns == 0..3

\* tile && tile.terrainType === TerrainType.Water
isValidMapPosition(position) ==
    TileExists(position) /\ position[1] \notin SeaLandColumns

\* clampToMapBoundaries on whole numbers: max(1, min(round(v), size - 2))
clampToMapBoundaries(position) ==
    << Max(1, Min(position[1], RealMapSize.width - 2)),
       Max(1, Min(position[2], RealMapSize.height - 2)) >>

\* the tiles the units of SpecSquad sit on, from the coast eastwards
SquadTileOrder == << <<4, 50>>, <<14, 50>>, <<20, 50>>, <<24, 50>>, <<25, 50>> >>

SquadTiles == { SquadTileOrder[i] : i \in DOMAIN SquadTileOrder }

\* the offsets evaluateWaterArea visits: dx, dy in -3..3 without (0, 0)
WaterCheckOffsets ==
    { d \in (-WATER_CHECK_RADIUS..WATER_CHECK_RADIUS)
              \X (-WATER_CHECK_RADIUS..WATER_CHECK_RADIUS) : d # <<0, 0>> }

\* 1 / (Math.sqrt(dx * dx + dy * dy) + 0.5), in thousandths
OpennessWeight ==
    [ d \in WaterCheckOffsets |->
        1000000 \div (ISqrt(1000000 * (d[1] * d[1] + d[2] * d[2])) + 500) ] @@ EmptyMap

\* the sum of a set of whole numbers carried by a function
RECURSIVE SumOf(_, _)
SumOf(f, keys) ==
    IF keys = {} THEN 0
    ELSE LET k == CHOOSE e \in keys : TRUE IN f[k] + SumOf(f, keys \ {k})

\* evaluateWaterArea: the openness of a position, in thousandths.  The sum
\* over the water tiles around the position is taken weight by weight.
evaluateWaterArea(position) ==
    LET water == { d \in WaterCheckOffsets :
                     isValidMapPosition(clampToMapBoundaries(
                         <<position[1] + d[1], position[2] + d[2]>>)) }
        weights == { OpennessWeight[d] : d \in water }
        times == [ v \in weights |->
                     v * Cardinality({ d \in water : OpennessWeight[d] = v }) ]
    IN  SumOf(times, weights)

\* the tiles within reach of a water search around the tiles of SquadTiles
SquadWaters ==
    { p \in (1..RealMapSize.width - 2) \X (1..RealMapSize.height - 2) :
        \E t \in SquadTiles : /\ Abs(p[1] - t[1]) <= WATER_SEARCH_RADIUS
                              /\ Abs(p[2] - t[2]) <= WATER_SEARCH_RADIUS }

\* the openness of the tiles of SquadWaters, computed once
WaterOpenness == [ p \in SquadWaters |-> evaluateWaterArea(p) ] @@ EmptyMap

Openness(position) ==
    IF position \in DOMAIN WaterOpenness THEN WaterOpenness[position]
    ELSE evaluateWaterArea(position)

\* the offsets the loops of findBestWaterPosition visit
WaterSearchOffsets ==
    (-WATER_SEARCH_RADIUS..WATER_SEARCH_RADIUS)
        \X (-WATER_SEARCH_RADIUS..WATER_SEARCH_RADIUS)

\* floor(100 * getDistanceBetweenPoints(p, q))
Dist100(p, q) == ISqrt(10000 * SqDist(p, q))

\* totalScore of a candidate, in thousandths:
\* distanceScore = 1 - distanceToTarget / (searchRadius * 2)
WaterScore(checkPos, targetPos, preferOpenWater) ==
    LET openness == Openness(checkPos)
        distanceScore ==
            1000 - (10 * Dist100(checkPos, targetPos)) \div (WATER_SEARCH_RADIUS * 2)
    IN  IF preferOpenWater
        THEN openness * PREFER_OPEN_WATER_WEIGHT + distanceScore
        ELSE openness + distanceScore * 2

\* The loops push an offset first in the round r = max(1, |dx|, |dy|), and
\* within a round in the order of dx, then dy; the stable sort keeps the
\* first pushed among equal scores.
PushedBefore(d, e) ==
    LET rd == Max(1, Max(Abs(d[1]), Abs(d[2])))
        re == Max(1, Max(Abs(e[1]), Abs(e[2])))
    IN  \/ rd < re
        \/ rd = re /\ d[1] < e[1]
        \/ rd = re /\ d[1] = e[1] /\ d[2] <= e[2]

WaterCandidates(currentPos, preferOpenWater) ==
    { d \in WaterSearchOffsets :
        LET checkPos == clampToMapBoundaries(<<currentPos[1] + d[1], currentPos[2] + d[2]>>)
        IN  /\ isValidMapPosition(checkPos)
            /\ ~(Openness(checkPos) < MIN_WATER_OPENNESS * 1000 /\ preferOpenWater) }

\* the candidate of offset d around currentPos
WaterCandidate(currentPos, d) ==
    clampToMapBoundaries(<<currentPos[1] + d[1], currentPos[2] + d[2]>>)

\* waterPositions.sort(...)[0]: of the candidates of the best score the one
\* pushed first
FirstOfTop(currentPos, targetPos, preferOpenWater, found, top) ==
    WaterCandidate(currentPos,
        CHOOSE d \in found :
            /\ WaterScore(WaterCandidate(currentPos, d), targetPos, preferOpenWater) = top
            /\ \A e \in found :
                  WaterScore(WaterCandidate(currentPos, e), targetPos, preferOpenWater) = top
                      => PushedBefore(d, e))

MaxOf(numbers) == CHOOSE m \in numbers : \A n \in numbers : n <= m

\* waterPositions[0]?.position || currentPos
BestOfFound(currentPos, targetPos, preferOpenWater, found) ==
    IF found = {} THEN currentPos
    ELSE FirstOfTop(currentPos, targetPos, preferOpenWater, found,
            MaxOf({ WaterScore(WaterCandidate(currentPos, d), targetPos, preferOpenWater) :
                      d \in found }))

BestOfPass(currentPos, targetPos, preferOpenWater) ==
    BestOfFound(currentPos, targetPos, preferOpenWater,
                WaterCandidates(currentPos, preferOpenWater))

\* findBestWaterPosition; the call of itself with preferOpenWater = false,
\* made when the open-water pass finds nothing, is the second pass here.
findBestWaterPosition(currentPos, targetPos, preferOpenWater) ==
    BestOfPass(currentPos, targetPos,
               preferOpenWater /\ WaterCandidates(currentPos, TRUE) # {})

\* the searches around the tiles of SquadTiles, computed once
WaterSearches ==
    [ q \in { <<p, p, b>> : p \in SquadTiles, b \in BOOLEAN }
        |-> findBestWaterPosition(q[1], q[2], q[3]) ] @@ EmptyMap

BestWaterPosition(currentPos, targetPos, preferOpenWater) ==
    IF <<currentPos, targetPos, preferOpenWater>> \in DOMAIN WaterSearches
    THEN WaterSearches[<<currentPos, targetPos, preferOpenWater>>]
    ELSE findBestWaterPosition(currentPos, targetPos, preferOpenWater)

\* findValidWaterPosition(target, currentPos, avoidDeadEnds)
findValidWaterPosition(target, currentPos, avoidDeadEnds) ==
    BestWaterPosition(clampToMapBoundaries(currentPos),
                      clampToMapBoundaries(target), avoidDeadEnds)

----------------------------------------------------------------------------
(* NavalSquad: state and handlers *)

NewNavalSquad(targetArea) ==
    [ lastCommand          |-> 0,
      state                |-> "Gathering",
      targetArea           |-> targetArea,
      lastOrderGiven       |-> EmptyMap,
      unitPositionHistory  |-> EmptyMap,
      lastStuckCheck       |-> 0,
      stuckStates          |-> EmptyMap,
      lastPathfindingTime  |-> EmptyMap,
      unitCombatStates     |-> EmptyMap ]

\* map.set(key, value)
MapSet(f, key, value) ==
    [ k \in DOMAIN f \cup {key} |-> IF k = key THEN value ELSE f[k] ]

\* manageMoveMicro: a deployed E1 is told to undeploy, any other unit to move
manageMoveMicro(w, attacker, attackPoint) ==
    IF w.unitName[attacker] = "E1" /\ w.unitStance[attacker] = "Deployed"
    THEN [unitId |-> attacker, orderType |-> "DeploySelected"]
    ELSE [unitId |-> attacker, orderType |-> "Move", point |-> attackPoint]

isSameAs_MovesOnly(lastAction, action) ==
    lastAction = action /\ action.orderType = "Move"

\* BatchableAction.isSameAs: the same unit, order and target
isSameAs(lastAction, action) == lastAction = action

\* A squad at work is the pair of its fields and the actions it has pushed
\* to the batcher during this update.
submitActionIfNew_Always(c, action) ==
    [ c EXCEPT !.sq.lastOrderGiven = MapSet(@, action.unitId, action),
               !.pushed = Append(@, action) ]

submitActionIfNew(c, action) ==
    IF \/ action.unitId \notin DOMAIN c.sq.lastOrderGiven
       \/ ~isSameAs(c.sq.lastOrderGiven[action.unitId], action)
    THEN [ c EXCEPT !.sq.lastOrderGiven = MapSet(@, action.unitId, action),
                    !.pushed = Append(@, action) ]
    ELSE c

startPathfinding(c, unit, currentTick) ==
    [ c EXCEPT !.sq.lastPathfindingTime = MapSet(@, unit, currentTick) ]

\* a missing entry and an entry of 0 both read as "no pathfinding"
isPathfindingInProgress(squad, unit, currentTick) ==
    /\ unit \in DOMAIN squad.lastPathfindingTime
    /\ squad.lastPathfindingTime[unit] # 0
    /\ currentTick - squad.lastPathfindingTime[unit] < PATHFINDING_WAIT_TICKS

\* getDistanceBetweenPoints(p, q) > STUCK_DISTANCE_THRESHOLD
FartherThanStuckDistance(p, q) ==
    100 * SqDist(p, q) > STUCK_DISTANCE_THRESHOLD10 * STUCK_DISTANCE_THRESHOLD10

\* getDistanceBetweenPoints(p, q) < STUCK_DISTANCE_THRESHOLD
CloserThanStuckDistance(p, q) ==
    100 * SqDist(p, q) < STUCK_DISTANCE_THRESHOLD10 * STUCK_DISTANCE_THRESHOLD10

isUnitStuck(squad, unit) ==
    /\ unit \in DOMAIN squad.unitPositionHistory
    /\ Len(squad.unitPositionHistory[unit]) >= STUCK_THRESHOLD
    /\ \A i \in 2..Len(squad.unitPositionHistory[unit]) :
          ~FartherThanStuckDistance(squad.unitPositionHistory[unit][i].pos,
                                    squad.unitPositionHistory[unit][i - 1].pos)

\* updateUnitPosition: push the sample, keep the last STUCK_THRESHOLD
updateUnitPosition(squad, w, unit, currentTick) ==
    LET history == IF unit \in DOMAIN squad.unitPositionHistory
                   THEN squad.unitPositionHistory[unit] ELSE <<>>
        pushed  == Append(history, [pos |-> w.unitTile[unit], timestamp |-> currentTick])
        kept    == IF Len(pushed) > STUCK_THRESHOLD
                   THEN SubSeq(pushed, Len(pushed) - STUCK_THRESHOLD + 1, Len(pushed))
                   ELSE pushed
    IN  [ squad EXCEPT !.unitPositionHistory = MapSet(@, unit, kept) ]

\* c * sqrt(s) <= t, on whole numbers
TimesRootAtMost(c, s, t) ==
    IF c <= 0
    THEN t >= 0 \/ c * c * s >= t * t
    ELSE t >= 0 /\ c * c * s <= t * t

\* Math.round(a * m / sqrt(s)): the greatest z with (2z - 1) * sqrt(s) <= 2am
RoundScaled(a, s, m) ==
    LET zs == { z \in (-m)..m : TimesRootAtMost(2 * z - 1, s, 2 * a * m) }
    IN  CHOOSE z \in zs : \A y \in zs : y <= z

\* the stuck state of the unit after the bookkeeping of handleStuckUnit
NextStuckState(before, pos, currentTick) ==
    IF currentTick - before.lastAttemptTime > STUCK_CHECK_INTERVAL * 2
    THEN [ attempts |-> IF CloserThanStuckDistance(pos, before.lastPosition)
                        THEN before.attempts + 1 ELSE before.attempts,
           lastAttemptTime |-> currentTick,
           lastPosition |-> pos ]
    ELSE before

StuckStateOf(squad, unit, pos, currentTick) ==
    NextStuckState(IF unit \in DOMAIN squad.stuckStates
                   THEN squad.stuckStates[unit]
                   ELSE [attempts |-> 0, lastAttemptTime |-> currentTick,
                         lastPosition |-> pos],
                   pos, currentTick)

\* retreatTarget + normalizedDir * RETREAT_DISTANCE * (attempts + 1), clamped,
\* when the found water is not the unit's own tile
ProjectRetreat(found, pos, reach) ==
    IF SqDist(found, pos) > 0
    THEN clampToMapBoundaries(
            << found[1] + RoundScaled(found[1] - pos[1], SqDist(found, pos), reach),
               found[2] + RoundScaled(found[2] - pos[2], SqDist(found, pos), reach) >>)
    ELSE found

ValidRetreat(projected, pos) ==
    IF ~isValidMapPosition(projected)
    THEN findValidWaterPosition(projected, pos, TRUE)
    ELSE projected

RetreatTarget(pos, attempts) ==
    ValidRetreat(
        ProjectRetreat(findValidWaterPosition(pos, pos, attempts >= MAX_STUCK_ATTEMPTS),
                       pos, RETREAT_DISTANCE * (attempts + 1)),
        pos)

\* the order and the pathfinding wait that end handleStuckUnit
StuckOrder(c, w, unit, currentTick) ==
    startPathfinding(
        submitActionIfNew(c, manageMoveMicro(w, unit,
            RetreatTarget(w.unitTile[unit], c.sq.stuckStates[unit].attempts))),
        unit, currentTick)

handleStuckUnit(c, w, unit, currentTick) ==
    StuckOrder([c EXCEPT !.sq.stuckStates =
                    MapSet(@, unit, StuckStateOf(c.sq, unit, w.unitTile[unit], currentTick))],
               w, unit, currentTick)

\* getFormationOffset(index, totalUnits) as clampToMapBoundaries rounds it
\* onto the whole-number target: radius = min(3, max(1, totalUnits / 3)),
\* angle = index * 2 * PI / totalUnits.
FormationOffsets ==
    << << <<1, 0>> >>,
       << <<1, 0>>, <<-1, 0>> >>,
       << <<1, 0>>, <<0, 1>>, <<0, -1>> >>,
       << <<1, 0>>, <<0, 1>>, <<-1, 0>>, <<0, -1>> >>,
       << <<2, 0>>, <<1, 2>>, <<-1, 1>>, <<-1, -1>>, <<1, -2>> >>,
       << <<2, 0>>, <<1, 2>>, <<-1, 2>>, <<-2, 0>>, <<-1, -2>>, <<1, -2>> >> >>

\* With three units the third offset is cos(4 PI / 3) = -0.5000000000000004:
\* added to a target of x <= 4 the sum rounds down, added to a larger x the
\* sum is the double x - 0.5, which Math.round takes up to x.
getFormationOffset(index, totalUnits, targetPoint) ==
    IF totalUnits = 3 /\ index = 2 /\ targetPoint[1] <= 4
    THEN <<-1, -1>>
    ELSE FormationOffsets[totalUnits][index + 1]

\* the place of a unit in the formation: on water, or the best water near it
FormationTarget(placed, targetPoint) ==
    IF ~isValidMapPosition(placed)
    THEN BestWaterPosition(placed, targetPoint, TRUE)
    ELSE placed

FormationPlace(index, totalUnits, targetPoint) ==
    clampToMapBoundaries(
        << targetPoint[1] + getFormationOffset(index, totalUnits, targetPoint)[1],
           targetPoint[2] + getFormationOffset(index, totalUnits, targetPoint)[2] >>)

MoveUnit(c, w, unit, unitTarget, currentTick) ==
    startPathfinding(submitActionIfNew(c, manageMoveMicro(w, unit, unitTarget)),
                     unit, currentTick)

RECURSIVE MoveFrom(_, _, _, _, _, _)
MoveFrom(c, w, units, targetPoint, currentTick, i) ==
    IF i > Len(units) THEN c
    ELSE MoveFrom(IF isPathfindingInProgress(c.sq, units[i], currentTick) THEN c
                  ELSE MoveUnit(c, w, units[i],
                           FormationTarget(FormationPlace(i - 1, Len(units), targetPoint),
                                           targetPoint),
                           currentTick),
                  w, units, targetPoint, currentTick, i + 1)

moveUnitsInFormation(c, w, units, targetPoint, currentTick) ==
    MoveFrom(c, w, units,
             clampToMapBoundaries(IF Openness(targetPoint) < MIN_WATER_OPENNESS * 1000
                                  THEN BestWaterPosition(targetPoint, targetPoint, TRUE)
                                  ELSE targetPoint),
             currentTick, 1)

----------------------------------------------------------------------------
(* NavalSquad.onAiUpdate *)

RECURSIVE SumCoordinate(_, _, _, _)
SumCoordinate(w, units, k, i) ==
    IF i > Len(units) THEN 0
    ELSE w.unitTile[units[i]][k] + SumCoordinate(w, units, k, i + 1)

\* mission.getCenterOfMass(): the mean of the tiles of the mission's units,
\* kept as the sum of the tiles and their count; null without units.
Mission_getCenterOfMass(w) ==
    IF Len(w.units) = 0 THEN NoPoint
    ELSE [ sum   |-> << SumCoordinate(w, w.units, 1, 1), SumCoordinate(w, w.units, 2, 1) >>,
           count |-> Len(w.units) ]

\* mission.getMaxDistanceToCenterOfMass(): the distance from the mean to the
\* farthest unit, kept as sqrt(square) / count; null, read as 0, without units.
Mission_getMaxDistanceToCenterOfMass(w) ==
    LET c  == Mission_getCenterOfMass(w)
        ds == { SqDist(<<c.count * w.unitTile[w.units[i]][1],
                         c.count * w.unitTile[w.units[i]][2]>>, c.sum) :
                  i \in DOMAIN w.units }
    IN  IF c = NoPoint THEN [square |-> 0, count |-> 1]
        ELSE [ square |-> CHOOSE d \in ds : \A e \in ds : e <= d, count |-> c.count ]

\* the mean as a pair of whole numbers, when it is one
CenterPoint(centerOfMass) ==
    << centerOfMass.sum[1] \div centerOfMass.count,
       centerOfMass.sum[2] \div centerOfMass.count >>

\* gameApi.mapApi.getTile(centerOfMass.x, centerOfMass.y) !== undefined:
\* the map has tiles at whole-number coordinates only
CenterHasTile(centerOfMass) ==
    /\ centerOfMass.sum[1] % centerOfMass.count = 0
    /\ centerOfMass.sum[2] % centerOfMass.count = 0
    /\ TileExists(CenterPoint(centerOfMass))

\* maxDistance > Math.sqrt(n) * GATHER_RATIO + radius, on whole numbers:
\* with maxDistance = sqrt(D) / m and A = radius * m this is
\* sqrt(D) - A > GATHER_RATIO * m * sqrt(n), squared twice.
ExceedsGatherRadius(maxDistance, n, radius) ==
    LET m == maxDistance.count
        D == maxDistance.square
        A == radius * m
        L == D + A * A - GATHER_RATIO * GATHER_RATIO * m * m * n
    IN  /\ D > A * A
        /\ L > 0
        /\ L > ISqrt(4 * A * A * D)

\* centerOfMass && maxDistance && getTile(centerOfMass) !== undefined
\*   && maxDistance > requiredGatherRadius
ScatteredBeyond(w, n, radius) ==
    LET centerOfMass == Mission_getCenterOfMass(w)
        maxDistance  == Mission_getMaxDistanceToCenterOfMass(w)
    IN  /\ centerOfMass # NoPoint
        /\ maxDistance.square # 0
        /\ CenterHasTile(centerOfMass)
        /\ ExceedsGatherRadius(maxDistance, n, radius)

GatheringScattered_AttackRadius(w) ==
    ScatteredBeyond(w, Len(w.units), MAX_GATHER_RADIUS)

\* the test of the Gathering state, on unitIds.length
GatheringScattered(w) == ScatteredBeyond(w, Len(w.units), MIN_GATHER_RADIUS)

\* the test of the Attacking state at the radius of the Gathering state
AttackingScattered_GatherRadius(w) ==
    ScatteredBeyond(w, Len(w.units), MIN_GATHER_RADIUS)

\* the test of the Attacking state, on units.length
AttackingScattered(w) == ScatteredBeyond(w, Len(w.units), MAX_GATHER_RADIUS)

\* updateUnitPosition, then handleStuckUnit if isUnitStuck
CheckUnit(c, w, unit, currentTick) ==
    IF isUnitStuck(c.sq, unit) THEN handleStuckUnit(c, w, unit, currentTick) ELSE c

RECURSIVE CheckStuckFrom(_, _, _, _)
CheckStuckFrom(c, w, currentTick, i) ==
    IF i > Len(w.units) THEN c
    ELSE CheckStuckFrom(
            CheckUnit([c EXCEPT !.sq = updateUnitPosition(@, w, w.units[i], currentTick)],
                      w, w.units[i], currentTick),
            w, currentTick, i + 1)

\* the stuck check, run when more than STUCK_CHECK_INTERVAL ticks have passed
StuckCheck(c, w, currentTick) ==
    IF currentTick > c.sq.lastStuckCheck + STUCK_CHECK_INTERVAL
    THEN CheckStuckFrom([c EXCEPT !.sq.lastStuckCheck = currentTick], w, currentTick, 1)
    ELSE c

----------------------------------------------------------------------------
(* NavalSquad: combat micro *)

ATTACK_SCAN_AREA == 25

MAX_IDLE_COMBAT_TICKS == 150

SUPPORT_ATTACK_RANGE == 25

NAVAL_YARD_SCAN_RANGE == 40

\* The factors of a target weight are decimal fractions; each is kept as a
\* whole number on a scale of its own.
\* COMBAT_UNIT_PRIORITY = 2.0 and BUILDING_ATTACK_PRIORITY = 0.8, in fifths
COMBAT_UNIT_PRIORITY5 == 10

BUILDING_ATTACK_PRIORITY5 == 4

\* NAVAL_UNIT_PRIORITY = 1.8 and NAVAL_YARD_PRIORITY = 2.0, in 25ths, so that
\* NAVAL_UNIT_PRIORITY * 0.8 is the whole number 36
NAVAL_UNIT_PRIORITY25 == 45

NAVAL_YARD_PRIORITY25 == 50

\* LOW_HEALTH_PRIORITY = 1.5, in halves
LOW_HEALTH_PRIORITY2 == 3

\* NEARBY_TARGET_BONUS = 1.3, in tenths
NEARBY_TARGET_BONUS10 == 13

\* the product of the four scales: fifths, 25ths, 20ths and tenths
WeightScale == 5 * 25 * 20 * 10

\* no hostile: the null of findBestTarget and findNearbyNavalYard
NoHostile == [id |-> 0 - 1]

\* attacker.primaryWeapon?.maxRange ?? attacker.secondaryWeapon?.maxRange ?? 5;
\* a world that names no weapon ranges has units without weapon data
maxRange(w, unit) == IF "unitRange" \in DOMAIN w THEN w.unitRange[unit] ELSE 5

\* matchAwareness.getHostilesNearPoint(x, y, radius), without the units of
\* neutral players.  The awareness reports hostiles in the order of their ids.
HostilesNearPoint(w, position, radius) ==
    { h \in HostilesNearPoint2d(w, position, radius) : ~h.neutral }

\* the first of a set of hostiles in the order the awareness reports them
FirstHostile(hostiles) ==
    CHOOSE h \in hostiles : \A g \in hostiles : h.id <= g.id

\* the weight before the bonus and the distance factor, times 5 * 25 * 20.
\* target.health10 is rules.points / rules.strength in tenths, 10 when
\* rules.strength is 0.
TargetFactor(target) ==
    IF target.kind = "combatant"
    THEN COMBAT_UNIT_PRIORITY5
           * (CASE target.zone = "Water" -> NAVAL_UNIT_PRIORITY25
                [] target.zone = "AmphibiousDestroyer" -> (NAVAL_UNIT_PRIORITY25 * 4) \div 5
                [] OTHER -> 25)
           * (20 + (10 - target.health10) * LOW_HEALTH_PRIORITY2)
    ELSE BUILDING_ATTACK_PRIORITY5
           * (IF target.kind = "NAYARD" THEN NAVAL_YARD_PRIORITY25 ELSE 25)
           * 20

\* distance <= maxRange
WithinRange(w, attacker, target) ==
    SqDist(w.unitTile[attacker], target.pos) <= maxRange(w, attacker) * maxRange(w, attacker)

\* calculateTargetWeight(attacker, target, inMajorBattle), which does not read
\* inMajorBattle.  The value is the weight times WeightScale * 250 * maxRange,
\* a positive factor that is the same for every target of one attacker, with
\* the distance taken to the hundredth of a tile:
\*   weight = factor * bonus * (1 - distance / (maxRange * 2.5)).
calculateTargetWeight(w, attacker, target) ==
    TargetFactor(target)
      * (IF WithinRange(w, attacker, target) THEN NEARBY_TARGET_BONUS10 ELSE 10)
      * (250 * maxRange(w, attacker) - Dist100(w.unitTile[attacker], target.pos))

\* the weight -1, the bestWeight a reduce of findBestTarget starts from
StartWeight(w, attacker) == 0 - WeightScale * 250 * maxRange(w, attacker)

\* targets.reduce((best, current) => currentWeight > bestWeight ? current : best, null):
\* the first target of the greatest weight, if that weight is above -1
BestByWeight(w, unit, targets) ==
    LET weight == [ t \in targets |-> calculateTargetWeight(w, unit, t) ]
        above  == { t \in targets : weight[t] > StartWeight(w, unit) }
        top    == { t \in above : \A s \in above : weight[s] <= weight[t] }
    IN  IF above = {} THEN NoHostile ELSE FirstHostile(top)

\* buildingTargets.find(distance <= maxRange && name === "NAYARD")
NearbyBuilding(w, unit, targets) ==
    { b \in targets : b.kind = "NAYARD" /\ WithinRange(w, unit, b) }

\* combatDistance > maxRange * 1.5
BeyondOneAndAHalfRange(w, unit, target) ==
    4 * SqDist(w.unitTile[unit], target.pos) > 9 * maxRange(w, unit) * maxRange(w, unit)

\* the choice among combatants: the best of them, or a naval yard in range
\* when the best of them is farther than one and a half ranges
CombatChoice(w, unit, targets, bestCombatTarget) ==
    IF /\ NearbyBuilding(w, unit, targets) # {}
       /\ bestCombatTarget # NoHostile
       /\ BeyondOneAndAHalfRange(w, unit, bestCombatTarget)
    THEN FirstHostile(NearbyBuilding(w, unit, targets))
    ELSE bestCombatTarget

findBestTarget_ByWeightAlone(w, unit, targets) == BestByWeight(w, unit, targets)

\* findBestTarget(unit, targets, inMajorBattle)
findBestTarget(w, unit, targets) ==
    IF \E t \in targets : t.kind = "combatant"
    THEN CombatChoice(w, unit, targets,
             BestByWeight(w, unit, { t \in targets : t.kind = "combatant" }))
    ELSE BestByWeight(w, unit, { t \in targets : t.kind # "combatant" })

\* findNearbyNavalYard(position): the nearest naval yard within
\* NAVAL_YARD_SCAN_RANGE, the first reported of equally near ones
findNearbyNavalYard(w, position) ==
    LET yards == { h \in HostilesNearPoint(w, position, NAVAL_YARD_SCAN_RANGE) :
                     h.kind = "NAYARD" }
        near  == { h \in yards : \A g \in yards :
                     SqDist(position, h.pos) <= SqDist(position, g.pos) }
    IN  IF yards = {} THEN NoHostile ELSE FirstHostile(near)

\* manageAttackMicro(attacker, target).  The units of a naval squad are ships,
\* picked by their movement zone, so the E1 branch does not apply; both other
\* branches give an Attack order on the target.
manageAttackMicro(w, attacker, target) ==
    [unitId |-> attacker, orderType |-> "Attack", targetId |-> target.id]

\* updateCombatState(unit, currentTick, hasTarget): a unit without a state
\* gets one whose lastEngageTime is this tick, with or without a target
updateCombatState(c, w, unit, currentTick, hasTarget) ==
    [ c EXCEPT !.sq.unitCombatStates =
        MapSet(@, unit,
               [ lastEngageTime |-> IF hasTarget \/ unit \notin DOMAIN @
                                    THEN currentTick
                                    ELSE @[unit].lastEngageTime,
                 lastPosition   |-> w.unitTile[unit] ]) ]

\* the squad-mates whose lastEngageTime is less than MAX_IDLE_COMBAT_TICKS old
EngagedAllies(squad, unit, units, currentTick) ==
    { i \in DOMAIN units :
        /\ units[i] # unit
        /\ units[i] \in DOMAIN squad.unitCombatStates
        /\ currentTick - squad.unitCombatStates[units[i]].lastEngageTime
              < MAX_IDLE_COMBAT_TICKS }

\* findNearestEngagedAlly(unit, units, currentTick): the set of the nearest
\* such squad-mate, the first in units of equally near ones; empty for null
findNearestEngagedAlly(squad, w, unit, units, currentTick) ==
    LET engaged == EngagedAllies(squad, unit, units, currentTick)
        near    == { i \in engaged : \A j \in engaged :
                       SqDist(w.unitTile[unit], w.unitTile[units[i]])
                         <= SqDist(w.unitTile[unit], w.unitTile[units[j]]) }
    IN  IF engaged = {} THEN {}
        ELSE { units[CHOOSE i \in near : \A j \in near : i <= j] }

\* (cos, sin) of (unit.id % 360) degrees.  The ids of the units in combat are
\* multiples of 90, whose headings lie along the axes.
SearchHeading(unit) ==
    CASE unit % 360 = 0   -> <<1, 0>>
      [] unit % 360 = 90  -> <<0, 1>>
      [] unit % 360 = 180 -> <<-1, 0>>
      [] unit % 360 = 270 -> <<0, -1>>

\* unit.tile + heading * SUPPORT_ATTACK_RANGE
SearchTarget(w, unit) ==
    << w.unitTile[unit][1] + SearchHeading(unit)[1] * SUPPORT_ATTACK_RANGE,
       w.unitTile[unit][2] + SearchHeading(unit)[2] * SUPPORT_ATTACK_RANGE >>

\* units.indexOf(unit)
IndexOf(units, unit) == (CHOOSE i \in DOMAIN units : units[i] = unit) - 1

\* new Vector2(point.x + offset.x, point.y + offset.y)
OffsetPoint(point, offset) == << point[1] + offset[1], point[2] + offset[2] >>

\* targetPoint + getFormationOffset(units.indexOf(unit), units.length)
HoldTarget(unit, units, targetPoint) ==
    OffsetPoint(targetPoint,
                getFormationOffset(IndexOf(units, unit), Len(units), targetPoint))

\* the unit has a combat state and its lastEngageTime is more than
\* MAX_IDLE_COMBAT_TICKS old
IdleInCombat(squad, unit, currentTick) ==
    /\ unit \in DOMAIN squad.unitCombatStates
    /\ currentTick - squad.unitCombatStates[unit].lastEngageTime > MAX_IDLE_COMBAT_TICKS

\* the move of a unit that has no target: to its nearest engaged squad-mate,
\* else on a search heading, else to its place around the target point
FallbackTo(ally, c, w, unit, units, currentTick, targetPoint) ==
    IF ally # {} THEN w.unitTile[CHOOSE a \in ally : TRUE]
    ELSE IF IdleInCombat(c.sq, unit, currentTick)
         THEN SearchTarget(w, unit)
         ELSE HoldTarget(unit, units, targetPoint)

FallbackTarget(c, w, unit, units, currentTick, targetPoint) ==
    FallbackTo(findNearestEngagedAlly(c.sq, w, unit, units, currentTick),
               c, w, unit, units, currentTick, targetPoint)

\* The hostile that handleCombat has the unit attack, NoHostile when there is
\* none: the naval yard nearby when no combatant is in sight, else the best
\* target.
CombatTarget(yard, nearbyHostiles, best) ==
    IF yard # NoHostile /\ \A h \in nearbyHostiles : h.kind # "combatant"
    THEN yard
    ELSE best

\* An attack order on the target and the unit counts as engaged, or without
\* a target the fallback move.
CombatOrder(c, w, unit, target, units, currentTick, targetPoint) ==
    updateCombatState(
        submitActionIfNew(c,
            IF target # NoHostile
            THEN manageAttackMicro(w, unit, target)
            ELSE manageMoveMicro(w, unit,
                     FallbackTarget(c, w, unit, units, currentTick, targetPoint))),
        w, unit, currentTick, target # NoHostile)

\* handleCombat(unit, nearbyHostiles, units, currentTick, targetPoint).  The
\* branch of the major battles needs nearbyHostiles to be empty, and
\* onAiUpdate calls handleCombat only when it is not.
handleCombat(c, w, unit, nearbyHostiles, units, currentTick, targetPoint) ==
    CombatOrder(c, w, unit,
                CombatTarget(findNearbyNavalYard(w, w.unitTile[unit]), nearbyHostiles,
                             findBestTarget(w, unit, nearbyHostiles)),
                units, currentTick, targetPoint)

RECURSIVE CombatFrom(_, _, _, _, _, _, _)
CombatFrom(c, w, nearbyHostiles, units, currentTick, targetPoint, i) ==
    IF i > Len(units) THEN c
    ELSE CombatFrom(handleCombat(c, w, units[i], nearbyHostiles, units, currentTick, targetPoint),
                    w, nearbyHostiles, units, currentTick, targetPoint, i + 1)

\* units.reduce((a, b) => range(a) < range(b) ? a : b): the unit of the
\* shortest primary weapon, the last of equally short ones
RECURSIVE LeaderFrom(_, _, _, _)
LeaderFrom(w, units, a, i) ==
    IF i > Len(units) THEN a
    ELSE LeaderFrom(w, units,
                    IF maxRange(w, a) < maxRange(w, units[i]) THEN a ELSE units[i],
                    i + 1)

attackLeader(w, units) == LeaderFrom(w, units, units[1], 2)

\* the commands of an Attacking squad that holds together
\* Where an Attacking squad sails in formation: to the naval yard near the
\* leader or else the target point when no hostile is in sight, to the first
\* hostile when those in sight are buildings.
AttackFormationTarget(yard, nearbyHostiles, targetPoint) ==
    IF nearbyHostiles # {} THEN FirstHostile(nearbyHostiles).pos
    ELSE IF yard # NoHostile THEN yard.pos
    ELSE targetPoint

AttackCommand(c, w, units, nearbyHostiles, leaderTile, targetPoint, currentTick) ==
    IF \E h \in nearbyHostiles : h.kind = "combatant"
    THEN CombatFrom(c, w, nearbyHostiles, units, currentTick, targetPoint, 1)
    ELSE moveUnitsInFormation(c, w, units,
             AttackFormationTarget(findNearbyNavalYard(w, leaderTile), nearbyHostiles,
                                   targetPoint),
             currentTick)

\* the commands with an Attacking squad that retreats when it is scattered
SquadCommand_Retreats(c, w, currentTick) ==
    IF c.sq.state = "Gathering"
    THEN IF GatheringScattered(w)
         THEN moveUnitsInFormation(c, w, w.units,
                  CenterPoint(Mission_getCenterOfMass(w)), currentTick)
         ELSE [c EXCEPT !.sq.state = "Attacking"]
    ELSE IF AttackingScattered(w)
         THEN [c EXCEPT !.sq.state = "Retreating"]
         ELSE AttackCommand(c, w, w.units,
                  HostilesNearPoint(w, w.unitTile[attackLeader(w, w.units)], ATTACK_SCAN_AREA),
                  w.unitTile[attackLeader(w, w.units)],
                  IF c.sq.targetArea = NoPoint THEN w.startLocation ELSE c.sq.targetArea,
                  currentTick)

\* the commands of the Gathering and the Attacking state.  The Exploring state
\* is never assigned, so its branch of onAiUpdate never runs.
SquadCommand(c, w, currentTick) ==
    IF c.sq.state = "Gathering"
    THEN IF GatheringScattered(w)
         THEN moveUnitsInFormation(c, w, w.units,
                  CenterPoint(Mission_getCenterOfMass(w)), currentTick)
         ELSE [c EXCEPT !.sq.state = "Attacking"]
    ELSE IF AttackingScattered(w)
         THEN [c EXCEPT !.sq.state = "Gathering"]
         ELSE AttackCommand(c, w, w.units,
                  HostilesNearPoint(w, w.unitTile[attackLeader(w, w.units)], ATTACK_SCAN_AREA),
                  w.unitTile[attackLeader(w, w.units)],
                  IF c.sq.targetArea = NoPoint THEN w.startLocation ELSE c.sq.targetArea,
                  currentTick)

CommandBlock_AtInterval(c, w, currentTick) ==
    IF /\ Len(w.units) > 0
       /\ \/ c.sq.lastCommand = 0
          \/ currentTick >= c.sq.lastCommand + TARGET_UPDATE_INTERVAL_TICKS
    THEN SquadCommand([c EXCEPT !.sq.lastCommand = currentTick], w, currentTick)
    ELSE c

\* the command block, run on a command tick
CommandBlock(c, w, currentTick) ==
    IF /\ Len(w.units) > 0
       /\ \/ c.sq.lastCommand = 0
          \/ currentTick > c.sq.lastCommand + TARGET_UPDATE_INTERVAL_TICKS
    THEN SquadCommand([c EXCEPT !.sq.lastCommand = currentTick], w, currentTick)
    ELSE c

SquadOutcome(c) == [sq |-> c.sq, action |-> noop, pushed |-> c.pushed]

\* onAiUpdate.  Every unit of the mission is a naval unit the game knows, so
\* getUnitIds(), unitIds and units are the one list w.units.
NavalSquad_onAiUpdate(squad, w, currentTick) ==
    SquadOutcome(CommandBlock(StuckCheck([sq |-> squad, pushed |-> <<>>], w, currentTick),
                              w, currentTick))

----------------------------------------------------------------------------
(* SpecSquad: a naval squad updated while its units sail or sit still *)

\* the most units the squad has
MaxSquadUnits == 3

\* the clock stops after MaxSquadChecks stuck checks' worth of ticks
MaxSquadChecks == 3

\* ticks between two updates of the squad
SquadSteps == {TARGET_UPDATE_INTERVAL_TICKS, STUCK_CHECK_INTERVAL + 1}

\* where the squad is ordered to
SquadTarget == <<50, 50>>

\* Between two updates the last unit of the squad may have sailed to a free
\* tile of SquadTiles next to its own in SquadTileOrder; the others hold
\* their tiles.
SquadWorlds(w) ==
    LET u == Len(w.units)
    IN  {w} \cup
        { [w EXCEPT !.unitTile[u] = SquadTileOrder[j]] :
            j \in { k \in DOMAIN SquadTileOrder :
                      /\ \A v \in DOMAIN w.unitTile : w.unitTile[v] # SquadTileOrder[k]
                      /\ \E i \in {k - 1, k + 1} :
                            /\ i \in DOMAIN SquadTileOrder
                            /\ SquadTileOrder[i] = w.unitTile[u] } }

SquadInit ==
    /\ tick = 0
    /\ am = Idle
    /\ mc = Idle
    /\ sq = NewNavalSquad(SquadTarget)
    /\ \E n \in 1..MaxSquadUnits :
          world = [ units      |-> [i \in 1..n |-> i],
                    unitTile   |-> [u \in 1..n |-> SquadTileOrder[u]],
                    unitName   |-> [u \in 1..n |-> "DEST"],
                    unitStance |-> [u \in 1..n |-> "None"],
                    hostiles   |-> {},
                    startLocation |-> <<10, 10>> ]
    /\ ret = [op |-> "none"]
    /\ hist = [state |-> "Gathering", lastOrderGiven |-> EmptyMap]

SquadUpdate ==
    \E dt \in SquadSteps, w \in SquadWorlds(world) :
        /\ tick + dt <= MaxSquadChecks * (STUCK_CHECK_INTERVAL + 1)
        /\ LET r == NavalSquad_onAiUpdate(sq, w, tick + dt)
           IN  /\ sq' = r.sq
               /\ ret' = [op |-> "NavalSquad.onAiUpdate", action |-> r.action,
                          pushed |-> r.pushed]
        /\ hist' = [state |-> sq.state, lastOrderGiven |-> sq.lastOrderGiven]
        /\ tick' = tick + dt
        /\ world' = w
        /\ UNCHANGED <<am, mc>>

SquadNext == SquadUpdate

SpecSquad == SquadInit /\ [][SquadNext]_vars

\* this update of the squad was a command tick
SquadCommandTick == ret.op = "NavalSquad.onAiUpdate" /\ sq.lastCommand = tick

\* the centroid-to-farthest-unit distance d of the squad's n units is at most
\* sqrt(n) * GATHER_RATIO + radius
SquadWithin(radius) ==
    ~ExceedsGatherRadius(Mission_getMaxDistanceToCenterOfMass(world),
                         Len(world.units), radius)

\* the centroid of the squad's units lies on a tile of the map
SquadCenterOnTile == CenterHasTile(Mission_getCenterOfMass(world))

SquadUnitStuck(u) ==
    /\ ret.op = "NavalSquad.onAiUpdate"
    /\ sq.lastStuckCheck = tick
    /\ u \in DOMAIN sq.unitPositionHistory
    /\ Len(sq.unitPositionHistory[u]) = STUCK_THRESHOLD
    /\ \A i \in 2..STUCK_THRESHOLD :
          /\ CloserThanStuckDistance(sq.unitPositionHistory[u][i].pos,
                                     sq.unitPositionHistory[u][i - 1].pos)
          /\ sq.unitPositionHistory[u][i].timestamp
                > sq.unitPositionHistory[u][i - 1].timestamp + STUCK_CHECK_INTERVAL

\* the target of an order
OrderTarget(order) == IF order.orderType = "Move" THEN order.point ELSE NoPoint

\* the order a unit had before the i-th order pushed during this update
PriorOrders(i) ==
    LET u == ret.pushed[i].unitId
        earlier == { j \in 1..(i - 1) : ret.pushed[j].unitId = u }
    IN  IF earlier # {}
        THEN { ret.pushed[CHOOSE j \in earlier : \A k \in earlier : k <= j] }
        ELSE IF u \in DOMAIN hist.lastOrderGiven THEN { hist.lastOrderGiven[u] } ELSE {}

\* C6: when a unit's last 3 samples, taken at stuck checks more than 60 ticks
\* apart, lie less than 0.5 apart, stuck recovery runs for the unit on that
\* check (it has a stuck state and its pathfinding wait starts at this tick);
\* and every order the squad gives a unit, so the next one after a recovery
\* too, has a target different from the target of the unit's prior order.
C6_StuckRecoveryGivesNewTarget ==
    /\ \A u \in DOMAIN world.unitTile :
          SquadUnitStuck(u) =>
              /\ u \in DOMAIN sq.stuckStates
              /\ u \in DOMAIN sq.lastPathfindingTime
              /\ sq.lastPathfindingTime[u] = tick
    /\ ret.op = "NavalSquad.onAiUpdate" =>
          \A i \in DOMAIN ret.pushed : \A prior \in PriorOrders(i) :
              OrderTarget(ret.pushed[i]) # OrderTarget(prior)

\* a stuck unit that had an order is given an order by its recovery
C6_Witness ==
    \E u \in DOMAIN world.unitTile :
        /\ SquadUnitStuck(u)
        /\ u \in DOMAIN hist.lastOrderGiven
        /\ \E i \in DOMAIN ret.pushed :
              /\ ret.pushed[i].unitId = u
              /\ OrderTarget(ret.pushed[i]) # OrderTarget(hist.lastOrderGiven[u])

----------------------------------------------------------------------------
(* NavalMission *)

NAVAL_CHECK_INTERVAL_TICKS == 300

NAVAL_MISSION_INITIAL_PRIORITY == 50

NAVAL_ATTACK_RADIUS == 15

NAVAL_UNIT_REQUEST_PRIORITY == 60

\* the bonus of the request for the first DEST
INITIAL_DEST_PRIORITY_BONUS == 10

LOG_INTERVAL == 300

\* "at least 3 ships": navalUnits.length < 3
NAVAL_MIN_UNITS == 3

\* disbandMission(reason)
disbandMissionFor(reason) == [type |-> "disband", reason |-> reason]

\* new NavalMission(name, priority, rallyPoint, targetArea, attackRadius,
\* navalUnitTypes): the field initialisers and the constructor.
NewNavalMission(missionPriority, rallyPoint, targetArea, attackRadius, navalUnitTypes) ==
    [ state |-> "Preparing",
      lastStateUpdateAt |-> 0,
      lastLogTime |-> 0,
      hasRequestedInitialDest |-> FALSE,
      missionPriority |-> missionPriority,
      rallyPoint |-> rallyPoint,
      targetArea |-> targetArea,
      attackRadius |-> attackRadius,
      navalUnitTypes |-> navalUnitTypes,
      squad |-> NewNavalSquad(targetArea) ]

\* the periodic debug output
NavalLogged(m, currentTick) ==
    IF currentTick - m.lastLogTime > LOG_INTERVAL
    THEN [m EXCEPT !.lastLogTime = currentTick]
    ELSE m

\* getUnitsMatchingByRule(r => r.name === "DEST")
DestUnits(w) == { i \in DOMAIN w.units : w.unitName[w.units[i]] = "DEST" }

\* a return out of _onAiUpdate before the squad is updated
NavalReturn(m, action) == [m |-> m, action |-> action, returned |-> TRUE]

\* a break out of the switch, on to the update of the squad
NavalBreak(m) == [m |-> m, action |-> noop, returned |-> FALSE]

\* centerOfMass && getMaxDistanceToCenterOfMass()
\*   && getMaxDistanceToCenterOfMass() < NAVAL_ATTACK_RADIUS
NavalGathered(centerOfMass, maxDistance) ==
    /\ centerOfMass # NoPoint
    /\ maxDistance.square # 0
    /\ maxDistance.square
         < NAVAL_ATTACK_RADIUS * NAVAL_ATTACK_RADIUS * maxDistance.count * maxDistance.count

\* case NavalMissionState.Preparing
NavalPreparing(m, w) ==
    IF Len(w.units) = 0
    THEN NavalReturn(m, requestUnits(m.navalUnitTypes, 10 * NAVAL_UNIT_REQUEST_PRIORITY))
    ELSE IF DestUnits(w) = {}
    THEN NavalReturn(m, requestUnits({"DEST"}, 10 * NAVAL_UNIT_REQUEST_PRIORITY))
    ELSE IF Len(w.units) < NAVAL_MIN_UNITS
    THEN NavalReturn(m, requestUnits(m.navalUnitTypes, 10 * NAVAL_UNIT_REQUEST_PRIORITY))
    ELSE NavalBreak([m EXCEPT
            !.state = IF NavalGathered(Mission_getCenterOfMass(w),
                                       Mission_getMaxDistanceToCenterOfMass(w))
                      THEN "Attacking" ELSE @,
            !.squad.targetArea = m.rallyPoint])

\* the hostiles near the target area that the game knows and no neutral owns
NavalNearbyHostiles(m, w) ==
    { h \in HostilesNearPoint2d(w, m.targetArea, m.attackRadius) : ~h.neutral }

\* nearbyHostiles.length >= navalUnits.length * 2
DefenceTooStrong_AtTwice(m, w) ==
    Cardinality(NavalNearbyHostiles(m, w)) >= Len(w.units) * 2

\* nearbyHostiles.length > navalUnits.length * 2
DefenceTooStrong(m, w) ==
    Cardinality(NavalNearbyHostiles(m, w)) > Len(w.units) * 2

\* case NavalMissionState.Attacking
NavalAttacking(m, w, currentTick) ==
    IF DestUnits(w) = {}
    THEN NavalReturn(m, requestUnits({"DEST"}, 10 * NAVAL_UNIT_REQUEST_PRIORITY))
    ELSE IF DefenceTooStrong(m, w)
    THEN NavalReturn([m EXCEPT !.state = "Retreating"], disbandMissionFor("DefenceTooStrong"))
    ELSE IF /\ NavalNearbyHostiles(m, w) = {}
            /\ currentTick > m.lastStateUpdateAt + NAVAL_CHECK_INTERVAL_TICKS
    THEN NavalReturn(m, disbandMissionFor("NoTargets"))
    ELSE IF Len(w.units) < NAVAL_MIN_UNITS
    THEN NavalReturn(m, requestUnits(m.navalUnitTypes, 10 * NAVAL_UNIT_REQUEST_PRIORITY))
    ELSE NavalBreak([m EXCEPT !.squad.targetArea = m.targetArea])

\* case NavalMissionState.Retreating
NavalRetreating(m) == NavalBreak([m EXCEPT !.squad.targetArea = m.rallyPoint])

\* the request for the first DEST, then the switch over the state
NavalSwitch(m, w, currentTick) ==
    IF ~m.hasRequestedInitialDest
    THEN NavalReturn([m EXCEPT !.hasRequestedInitialDest = TRUE],
                     requestUnits({"DEST"},
                         10 * (NAVAL_UNIT_REQUEST_PRIORITY + INITIAL_DEST_PRIORITY_BONUS)))
    ELSE CASE m.state = "Preparing" -> NavalPreparing(m, w)
           [] m.state = "Attacking" -> NavalAttacking(m, w, currentTick)
           [] OTHER                 -> NavalRetreating(m)

\* return this.squad.onAiUpdate(...)
NavalSquadUpdated(m, r) ==
    [m |-> [m EXCEPT !.squad = r.sq], action |-> r.action, pushed |-> r.pushed]

\* what follows the switch: the action returned, or the squad's update
NavalAfterSwitch(o, w, currentTick) ==
    IF o.returned
    THEN [m |-> o.m, action |-> o.action, pushed |-> <<>>]
    ELSE NavalSquadUpdated(o.m, NavalSquad_onAiUpdate(o.m.squad, w, currentTick))

\* NavalMission._onAiUpdate
NavalMission_onAiUpdate(m, w, currentTick) ==
    NavalAfterSwitch(NavalSwitch(NavalLogged(m, currentTick), w, currentTick),
                     w, currentTick)

----------------------------------------------------------------------------
(* SpecNaval: one NavalMission updated while ships join and sink *)

\* the most ships the mission holds
MaxNavalUnits == 3

\* the clock stops after MaxNavalUpdates updates
MaxNavalUpdates == 6

\* ticks between two updates of the mission
NavalSteps == {STUCK_CHECK_INTERVAL + 1}

\* the hostiles the awareness can report: a row of k ships east of the
\* target area, a neutral one among them, and one out of the attack radius
NavalHostileRow(k) ==
    { [id |-> i, pos |-> <<SquadTarget[1] + i, SquadTarget[2]>>, kind |-> "combatant",
       neutral |-> FALSE, naval |-> TRUE] : i \in 1..k }

NavalBystanders ==
    { [id |-> 100, pos |-> <<SquadTarget[1] + 8, SquadTarget[2]>>, kind |-> "other",
       neutral |-> TRUE, naval |-> FALSE],
      [id |-> 101, pos |-> <<SquadTarget[1], SquadTarget[2] - 30>>, kind |-> "combatant",
       neutral |-> FALSE, naval |-> TRUE] }

NavalScenes ==
    { NavalHostileRow(k) \cup extra :
        k \in 0..(2 * MaxNavalUnits + 1), extra \in {{}, NavalBystanders} }

\* Between two updates a ship may have joined the mission or its last ship
\* may have sunk, and the hostiles in sight are any scene.
NavalWorlds(w) ==
    { [w EXCEPT !.units = [i \in 1..n |-> i], !.hostiles = hs] :
        n \in { k \in {Len(w.units) - 1, Len(w.units), Len(w.units) + 1} :
                  k >= 0 /\ k <= MaxNavalUnits },
        hs \in NavalScenes }

NavalInit ==
    /\ tick = 0
    /\ am = Idle
    /\ mc = Idle
    /\ sq = NewNavalMission(10 * NAVAL_MISSION_INITIAL_PRIORITY, <<14, 50>>, SquadTarget,
                            NAVAL_ATTACK_RADIUS, {"DEST"})
    /\ world = [ units      |-> <<>>,
                 unitTile   |-> [u \in 1..MaxNavalUnits |-> SquadTileOrder[u]],
                 unitName   |-> [u \in 1..MaxNavalUnits |-> "DEST"],
                 unitStance |-> [u \in 1..MaxNavalUnits |-> "None"],
                 startLocation |-> <<10, 10>>,
                 hostiles   |-> {} ]
    /\ ret = [op |-> "none"]
    /\ hist = [createdAt |-> 0, attackingSince |-> 0]

\* One update of the mission; a mission that returned Disband has left the
\* controller's list and is updated no more.  hist keeps the tick of the
\* update that took the mission to Attacking.
NavalUpdate ==
    \E dt \in NavalSteps, w \in NavalWorlds(world) :
        /\ IF ret.op = "none" THEN TRUE ELSE ret.action.type # "disband"
        /\ tick + dt <= MaxNavalUpdates * (STUCK_CHECK_INTERVAL + 1)
        /\ LET r == NavalMission_onAiUpdate(sq, w, tick + dt)
           IN  /\ sq' = r.m
               /\ ret' = [op |-> "NavalMission._onAiUpdate", stateBefore |-> sq.state,
                          action |-> r.action, pushed |-> r.pushed]
               /\ hist' = [hist EXCEPT !.attackingSince =
                              IF sq.state # "Attacking" /\ r.m.state = "Attacking"
                              THEN tick + dt ELSE @]
        /\ tick' = tick + dt
        /\ world' = w
        /\ UNCHANGED <<am, mc>>

NavalNext == NavalUpdate

SpecNaval == NavalInit /\ [][NavalNext]_vars

\* the hostiles of the last update's world within the attack radius of the
\* target area that no neutral owns
NavalHostileCount ==
    Cardinality({ h \in world.hostiles :
                    /\ ~h.neutral
                    /\ SqDist(h.pos, sq.targetArea) <= sq.attackRadius * sq.attackRadius })

NavalOutnumbered == NavalHostileCount > 2 * Len(world.units)

NavalRetreated ==
    /\ sq.state = "Retreating"
    /\ ret.action = [type |-> "disband", reason |-> "DefenceTooStrong"]

\* C14: an update of a NavalMission that is Attacking and holds a DEST moves
\* it to Retreating and returns Disband(DefenceTooStrong) exactly when the
\* hostiles within the attack radius of its target area that no neutral owns
\* number more than twice its naval units; the mission is Retreating after
\* no other update.
C14_RetreatsIffOutnumbered ==
    /\ ret.op = "none" => sq.state = "Preparing"
    /\ ret.op = "NavalMission._onAiUpdate" =>
          /\ (ret.stateBefore = "Attacking" /\ DestUnits(world) # {})
                => (NavalRetreated <=> NavalOutnumbered)
          /\ sq.state = "Retreating"
                => /\ ret.stateBefore = "Attacking"
                   /\ DestUnits(world) # {}
                   /\ NavalOutnumbered
                   /\ NavalRetreated
          /\ (ret.action.type = "disband" /\ ret.action.reason = "DefenceTooStrong")
                => sq.state = "Retreating"

\* The mission retreats with one DEST left and three hostile ships at its
\* target, a neutral unit and a ship out of radius not counted.
C14_Witness ==
    /\ ret.op = "NavalMission._onAiUpdate"
    /\ ret.stateBefore = "Attacking"
    /\ NavalRetreated
    /\ Len(world.units) = 1
    /\ NavalHostileCount = 3
    /\ Cardinality(world.hostiles) = 5

----------------------------------------------------------------------------
(* NavalMission, the version that tracks its progress *)

\* NAVAL_ATTACK_RADIUS of this version
NAVAL_ATTACK_RADIUS_WIDE == 30

MAX_SCATTER_DISTANCE == 20

\* FORCE_GATHER_THRESHOLD, in tenths
FORCE_GATHER_THRESHOLD10 == 6

\* FORCE_ATTACK_THRESHOLD of this version, in tenths
NAVAL_FORCE_ATTACK_THRESHOLD10 == 5

\* MAX_GATHER_TIME of this version
NAVAL_MAX_GATHER_TIME == 900

\* SEARCH_EXPAND_INTERVAL of this version
NAVAL_SEARCH_EXPAND_INTERVAL == 300

\* INITIAL_SEARCH_RADIUS of this version
NAVAL_INITIAL_SEARCH_RADIUS == 40

\* MAX_SEARCH_RADIUS of this version
NAVAL_MAX_SEARCH_RADIUS == 150

\* the growth of currentSearchRadius in findNewTarget
NAVAL_SEARCH_RADIUS_INCREMENT == 20

TARGET_UPDATE_INTERVAL == 60

MAX_MISSION_DURATION == 1800

MAX_NO_PROGRESS_TIME == 600

MIN_PROGRESS_DISTANCE == 10

\* "at least 2 ships": totalUnits >= 2 and navalUnits.length < 2
NAVAL_MIN_ACTIVE_UNITS == 2

\* the margin of the mission's clampToMapBoundaries
NAVAL_MAP_MARGIN == 2

\* new NavalMission(...) of this version; now is the value Date.now()
\* returned.
NewProgressNavalMission(missionPriority, rallyPoint, targetArea, attackRadius, navalUnitTypes, now) ==
    [ state |-> "Preparing",
      lastStateUpdateAt |-> 0,
      lastLogTime |-> 0,
      gatherStartTime |-> now,
      currentSearchRadius |-> NAVAL_INITIAL_SEARCH_RADIUS,
      lastSearchExpandTime |-> 0,
      lastTargetUpdateTime |-> 0,
      missionStartTime |-> now,
      lastProgressTime |-> 0,
      lastPosition |-> NoPoint,
      missionPriority |-> missionPriority,
      rallyPoint |-> rallyPoint,
      targetArea |-> targetArea,
      attackRadius |-> attackRadius,
      navalUnitTypes |-> navalUnitTypes,
      squad |-> NewNavalSquad(targetArea) ]

\* getAlliedNavalCompositions
getAlliedNavalCompositions(w) ==
    [DEST |-> 2]
      @@ (IF w.hasAirforce THEN [AEGIS |-> 1] ELSE EmptyMap)
      @@ (IF w.hasBattleLab THEN [DLPH |-> 1, CARRIER |-> 1] ELSE EmptyMap)

\* currentComposition[unitType] || 0
NavalCurrentCount(w, unitType) ==
    Cardinality({ i \in DOMAIN w.units : w.unitName[w.units[i]] = unitType })

\* the distance between two means [sum, count] is at least d
MeansApart(p, q, d) ==
    SqDist(<<p.sum[1] * q.count, p.sum[2] * q.count>>,
           <<q.sum[1] * p.count, q.sum[2] * p.count>>)
        >= d * d * p.count * p.count * q.count * q.count

\* checkMissionProgress; now is the value Date.now() returns
checkMissionProgress(m, currentPosition, now) ==
    IF m.lastPosition = NoPoint
    THEN [m EXCEPT !.lastPosition = currentPosition]
    ELSE IF MeansApart(currentPosition, m.lastPosition, MIN_PROGRESS_DISTANCE)
    THEN [m EXCEPT !.lastPosition = currentPosition, !.lastProgressTime = now]
    ELSE m

\* shouldCancelMission
shouldCancelMission(m, currentTick, now) ==
    \/ currentTick - m.missionStartTime > MAX_MISSION_DURATION
    \/ now - m.lastProgressTime > MAX_NO_PROGRESS_TIME

\* the unit's distance to the mean is more than MAX_SCATTER_DISTANCE
NavalUnitScattered(w, unit, centerOfMass) ==
    SqDist(<<centerOfMass.count * w.unitTile[unit][1],
             centerOfMass.count * w.unitTile[unit][2]>>, centerOfMass.sum)
        > MAX_SCATTER_DISTANCE * MAX_SCATTER_DISTANCE
            * centerOfMass.count * centerOfMass.count

\* checkUnitScatter
checkUnitScatter(w) ==
    /\ Len(w.units) >= NAVAL_MIN_ACTIVE_UNITS
    /\ Mission_getCenterOfMass(w) # NoPoint
    /\ 10 * Cardinality({ i \in DOMAIN w.units :
                            NavalUnitScattered(w, w.units[i], Mission_getCenterOfMass(w)) })
          > FORCE_GATHER_THRESHOLD10 * Len(w.units)

\* the mission's clampToMapBoundaries
NavalMission_clampToMapBoundaries(position) ==
    << Max(NAVAL_MAP_MARGIN, Min(position[1], RealMapSize.width - NAVAL_MAP_MARGIN - 1)),
       Max(NAVAL_MAP_MARGIN, Min(position[2], RealMapSize.height - NAVAL_MAP_MARGIN - 1)) >>

\* the search radius of findNewTarget after its periodic growth
NavalSearchExpanded(m, currentTick) ==
    IF currentTick - m.lastSearchExpandTime > NAVAL_SEARCH_EXPAND_INTERVAL
    THEN [m EXCEPT !.currentSearchRadius =
                      Min(@ + NAVAL_SEARCH_RADIUS_INCREMENT, NAVAL_MAX_SEARCH_RADIUS),
                   !.lastSearchExpandTime = currentTick]
    ELSE m

\* the hostiles within radius of a mean [sum, count]
HostilesNearMean(w, centerOfMass, radius) ==
    { h \in w.hostiles :
        SqDist(<<centerOfMass.count * h.pos[1], centerOfMass.count * h.pos[2]>>,
               centerOfMass.sum)
            <= radius * radius * centerOfMass.count * centerOfMass.count }

\* The points findNewTarget can return for a search radius: the first naval
\* yard in sight, else the first water unit or building in radius, else the
\* start of the first enemy player, else null; the order of the lists is the
\* game's.
findNewTarget(w, currentPosition, radius) ==
    LET navalYards == { h \in w.hostiles : ~h.neutral /\ h.kind \in {"NAYARD", "GAYARD"} }
        targets == { h \in HostilesNearMean(w, currentPosition, radius) :
                       ~h.neutral /\ (h.naval \/ IsBuilding(h)) }
    IN  IF navalYards # {} THEN { h.pos : h \in navalYards }
        ELSE IF targets # {} THEN { h.pos : h \in targets }
        ELSE {w.enemyStart}

\* the types the composition asks for more of, each as often as it is short
NavalMissingUnits(w, targetComposition) ==
    LET short == { t \in DOMAIN targetComposition :
                     NavalCurrentCount(w, t) < targetComposition[t] }
    IN  [ t \in short |-> targetComposition[t] - NavalCurrentCount(w, t) ]

\* the types of which the mission holds less than half the target count
NavalDepletedUnits(w, targetComposition) ==
    { t \in DOMAIN targetComposition :
        2 * NavalCurrentCount(w, t) < targetComposition[t] }

\* the test that starts the attack
NavalReadyToAttack(m, w, targetComposition, currentTick) ==
    \/ 10 * Len(w.units) >= NAVAL_FORCE_ATTACK_THRESHOLD10 * CountUnits(targetComposition)
    \/ /\ currentTick - m.gatherStartTime > NAVAL_MAX_GATHER_TIME
       /\ Len(w.units) >= NAVAL_MIN_ACTIVE_UNITS
    \/ /\ Len(w.units) >= NAVAL_MIN_ACTIVE_UNITS
       /\ 2 * (currentTick - m.gatherStartTime) > NAVAL_MAX_GATHER_TIME

\* case NavalMissionState.Preparing of this version
ProgressPreparing(m, w, targetComposition, currentTick) ==
    IF checkUnitScatter(w)
    THEN NavalBreak([m EXCEPT !.squad.targetArea = m.rallyPoint])
    ELSE IF DOMAIN NavalMissingUnits(w, targetComposition) # {}
    THEN NavalReturn(m, requestUnits(NavalMissingUnits(w, targetComposition),
                                     10 * NAVAL_UNIT_REQUEST_PRIORITY))
    ELSE NavalBreak([m EXCEPT
            !.state = IF NavalReadyToAttack(m, w, targetComposition, currentTick)
                      THEN "Attacking" ELSE @,
            !.squad.targetArea = m.rallyPoint])

\* the end of the Attacking case: the squad is sent to the clamped target
ProgressAdvance(m) ==
    NavalBreak([m EXCEPT !.squad.targetArea = NavalMission_clampToMapBoundaries(m.targetArea)])

\* the periodic target update of the Attacking case, for a point newTarget
\* that findNewTarget returned
ProgressRetarget(m, newTarget, currentTick, now) ==
    IF newTarget # NoPoint
    THEN ProgressAdvance([m EXCEPT !.targetArea = newTarget,
                                   !.lastProgressTime = now,
                                   !.lastTargetUpdateTime = currentTick])
    ELSE IF now - m.lastProgressTime > MAX_NO_PROGRESS_TIME
    THEN NavalReturn(m, disbandMission)
    ELSE ProgressAdvance([m EXCEPT !.lastTargetUpdateTime = currentTick])

\* case NavalMissionState.Attacking of this version: what it can end with
ProgressAttacking(m, w, targetComposition, currentTick) ==
    IF NavalDepletedUnits(w, targetComposition) # {}
    THEN { NavalReturn(m, requestUnits(NavalDepletedUnits(w, targetComposition),
                                       10 * NAVAL_UNIT_REQUEST_PRIORITY)) }
    ELSE IF currentTick - m.lastTargetUpdateTime > TARGET_UPDATE_INTERVAL
    THEN IF Mission_getCenterOfMass(w) # NoPoint
         THEN { ProgressRetarget(NavalSearchExpanded(m, currentTick), newTarget,
                                 currentTick, w.now) :
                  newTarget \in findNewTarget(w, Mission_getCenterOfMass(w),
                                    NavalSearchExpanded(m, currentTick).currentSearchRadius) }
         ELSE { ProgressAdvance([m EXCEPT !.lastTargetUpdateTime = currentTick]) }
    ELSE { ProgressAdvance(m) }

\* the switch over the state of this version
ProgressSwitch(m, w, currentTick) ==
    CASE m.state = "Preparing" ->
            { ProgressPreparing(m, w, getAlliedNavalCompositions(w), currentTick) }
      [] m.state = "Attacking" ->
            ProgressAttacking(m, w, getAlliedNavalCompositions(w), currentTick)
      [] OTHER -> { NavalRetreating(m) }

\* the progress check at the head of _onAiUpdate: the mission with its
\* progress sampled
ProgressSampled(m, w) ==
    IF Mission_getCenterOfMass(w) # NoPoint
    THEN checkMissionProgress(m, Mission_getCenterOfMass(w), w.now)
    ELSE m

\* the outcome with the place the mission was cancelled at, if it was
ProgressOutcome(o, by) ==
    [m |-> o.m, action |-> o.action, pushed |-> o.pushed, by |-> by]

\* _onAiUpdate from the debug output on
ProgressRest(m, w, currentTick) ==
    { ProgressOutcome(NavalAfterSwitch(o, w, currentTick),
                      IF o.action.type = "disband" THEN "findNewTarget" ELSE "none") :
        o \in ProgressSwitch(NavalLogged(m, currentTick), w, currentTick) }

\* _onAiUpdate after the progress was sampled
ProgressChecked(m, w, currentTick) ==
    IF Mission_getCenterOfMass(w) # NoPoint /\ shouldCancelMission(m, currentTick, w.now)
    THEN { [m |-> m, action |-> disbandMission, pushed |-> <<>>,
            by |-> "shouldCancelMission"] }
    ELSE ProgressRest(m, w, currentTick)

\* NavalMission._onAiUpdate of this version: what it can end with
ProgressNavalMission_onAiUpdate(m, w, currentTick) ==
    ProgressChecked(ProgressSampled(m, w), w, currentTick)

----------------------------------------------------------------------------
(* SpecNavalProgress: one progress-tracking NavalMission under update *)

MaxProgressUnits == 3

MaxProgressUpdates == 5

\* the milliseconds that can pass between two updates
ProgressClockSteps == {500, 4000}

\* ticks between two updates of the mission
ProgressSteps == {TARGET_UPDATE_INTERVAL + 1}

\* ships far from each other
ProgressSpreadOrder == << <<4, 50>>, <<60, 50>>, <<30, 50>>, <<58, 50>>, <<6, 50>> >>

ProgressLayouts ==
    { [u \in 1..MaxProgressUnits |-> SquadTileOrder[u]],
      [u \in 1..MaxProgressUnits |-> ProgressSpreadOrder[u]] }

\* the hostiles in sight: none, a ship, or a naval yard
ProgressScenes ==
    { {},
      { [id |-> 1, pos |-> <<40, 50>>, kind |-> "combatant", neutral |-> FALSE, naval |-> TRUE] },
      { [id |-> 2, pos |-> <<44, 52>>, kind |-> "NAYARD", neutral |-> FALSE, naval |-> FALSE] } }

\* Between two updates the mission may have been granted ships or lost some,
\* its ships may be close together or far apart, the hostiles in sight are
\* any scene, and the wall clock has advanced.
ProgressWorlds(w) ==
    { [w EXCEPT !.units = [i \in 1..n |-> i], !.unitTile = layout,
                !.hostiles = hs, !.now = @ + ms] :
        n \in 0..MaxProgressUnits, layout \in ProgressLayouts,
        hs \in ProgressScenes, ms \in ProgressClockSteps }

ProgressInit ==
    /\ tick = 0
    /\ am = Idle
    /\ mc = Idle
    /\ sq = NewProgressNavalMission(10 * NAVAL_MISSION_INITIAL_PRIORITY, <<14, 50>>,
                                    SquadTarget, NAVAL_ATTACK_RADIUS_WIDE,
                                    {"DEST", "AEGIS", "DLPH", "CARRIER"}, WallClockNow)
    /\ \E airforce \in BOOLEAN, battleLab \in BOOLEAN :
         world = [ units      |-> <<>>,
                   unitTile   |-> [u \in 1..MaxProgressUnits |-> SquadTileOrder[u]],
                   unitName   |-> [u \in 1..MaxProgressUnits |-> "DEST"],
                   unitStance |-> [u \in 1..MaxProgressUnits |-> "None"],
                   startLocation |-> <<10, 10>>,
                   enemyStart |-> <<54, 54>>,
                   hasAirforce |-> airforce,
                   hasBattleLab |-> battleLab,
                   now        |-> WallClockNow,
                   hostiles   |-> {} ]
    /\ ret = [op |-> "none"]
    /\ hist = [createdAt |-> 0, positionAt |-> 0]

\* One update of the mission; a mission that returned Disband has left the
\* controller's list and is updated no more.  hist keeps the tick the
\* mission last recorded its position at.
ProgressUpdate ==
    \E dt \in ProgressSteps, w \in ProgressWorlds(world) :
        /\ IF ret.op = "none" THEN TRUE ELSE ret.action.type # "disband"
        /\ tick + dt <= MaxProgressUpdates * (TARGET_UPDATE_INTERVAL + 1)
        /\ \E r \in ProgressNavalMission_onAiUpdate(sq, w, tick + dt) :
             /\ sq' = r.m
             /\ ret' = [op |-> "NavalMission._onAiUpdate", stateBefore |-> sq.state,
                        action |-> r.action, pushed |-> r.pushed, by |-> r.by]
             /\ hist' = [hist EXCEPT !.positionAt =
                            IF r.m.lastPosition # sq.lastPosition THEN tick + dt ELSE @]
        /\ tick' = tick + dt
        /\ world' = w
        /\ UNCHANGED <<am, mc>>

ProgressNext == ProgressUpdate

SpecNavalProgress == ProgressInit /\ [][ProgressNext]_vars

\* the ships of the last update's world farther than MAX_SCATTER_DISTANCE
\* from their mean
ProgressScattered ==
    { i \in DOMAIN world.units :
        NavalUnitScattered(world, world.units[i], Mission_getCenterOfMass(world)) }

\* C15: a progress-tracking NavalMission is cancelled for missing progress
\* only after its centre of mass stayed within 10 of the last recorded
\* position for more than 600 ticks, and for its duration only after more than
\* 1800 ticks since it was created; a mission younger than 600 ticks is never
\* cancelled by these timeouts.
C15_CancelledOnlyAfterTimeouts ==
    (ret.op = "NavalMission._onAiUpdate" /\ sq.attackRadius = NAVAL_ATTACK_RADIUS_WIDE
        /\ ret.by = "shouldCancelMission")
    => /\ tick - hist.createdAt > MAX_NO_PROGRESS_TIME
       /\ \/ tick - hist.positionAt > MAX_NO_PROGRESS_TIME
          \/ tick - hist.createdAt > MAX_MISSION_DURATION

\* C16: an update of a Preparing NavalMission with at least 2 naval units of
\* which more than 60% are farther than 20 from their mean leaves it
\* Preparing, directs the squad to the rally point, and returns no
\* RequestUnits.
C16_ScatteredKeepsGathering ==
    (ret.op = "NavalMission._onAiUpdate" /\ sq.attackRadius = NAVAL_ATTACK_RADIUS_WIDE
        /\ ret.stateBefore = "Preparing"
        /\ Len(world.units) >= NAVAL_MIN_ACTIVE_UNITS
        /\ 10 * Cardinality(ProgressScattered) > FORCE_GATHER_THRESHOLD10 * Len(world.units))
    => /\ sq.state = "Preparing"
       /\ sq.squad.targetArea = sq.rallyPoint
       /\ ret.action.type # "requestUnits"

----------------------------------------------------------------------------
(* SpecScout: one ScoutingMission under update *)

\* the most scouts the mission is ever given
MaxScoutUnits == 7

\* the most updates of the mission
MaxScoutUpdates == 6

\* the most updates of the mission while it loses scout after scout
MaxAttemptUpdates == 15

\* ticks between two updates of the mission
ScoutSteps == {SCOUT_MOVE_COOLDOWN_TICKS + 1, MAX_TICKS_PER_TARGET \div 2}

\* the tiles a scout is seen on: where it joins, and next to the land target
ScoutPath == << <<10, 30>>, <<28, 30>> >>

ScoutPathTiles == { ScoutPath[i] : i \in DOMAIN ScoutPath }

ScoutLandTarget == [pos |-> <<30, 30>>, permanent |-> FALSE]

ScoutWaterTarget == [pos |-> <<30, 40>>, permanent |-> FALSE]

ScoutPermanentTarget == [pos |-> <<30, 30>>, permanent |-> TRUE]

\* the tile findNextTarget finds next to the land target
ScoutLocalTarget == <<32, 30>>

\* The scouts the mission can hold at its next update: the one it holds is
\* seen on any tile of the path or has died; without one, a unit of a
\* requested type may have been assigned after a request.
ScoutUnitsNext(w) ==
    IF w.alive # {}
    THEN { [w EXCEPT !.unitTile = [u \in DOMAIN w.unitTile |->
                                     IF u \in w.alive THEN t ELSE ScoutPath[1]]] :
             t \in ScoutPathTiles }
         \cup { [w EXCEPT !.alive = {},
                          !.unitTile = [u \in DOMAIN w.unitTile |-> ScoutPath[1]]] }
    ELSE {w} \cup
         ( IF /\ ret.op # "none"
              /\ ret.action.type = "requestUnits"
              /\ w.born < MaxScoutUnits
           THEN { [w EXCEPT !.born = @ + 1, !.alive = {w.born + 1},
                            !.unitType[w.born + 1] =
                                IF ret.action.unitNames = waterScoutNames
                                THEN "DEST" ELSE "DOG"] }
           ELSE {} )

\* What the mission can meet on its next update: the scouts, the overall
\* visibility, the scouting manager's answer where the mission has no target,
\* and whether the target and the tile next to it have been seen.
ScoutScenes(x) ==
    { [ x EXCEPT !.overallVisibility = v, !.newScoutTarget = s, !.visibleTiles = seen ] :
        v \in {VISIBILITY_DISBAND_PERCENT, VISIBILITY_DISBAND_PERCENT + 1},
        s \in IF sq.scoutTarget = NoPoint
              THEN {NoTarget, ScoutLandTarget, ScoutWaterTarget, ScoutPermanentTarget}
              ELSE {NoTarget},
        seen \in IF sq.scoutTarget = NoPoint \/ x.alive = {}
                 THEN {{}}
                 ELSE {{}, {sq.scoutTarget}, {sq.scoutTarget, ScoutLocalTarget}} }

ScoutWorlds(w) == UNION { ScoutScenes(x) : x \in ScoutUnitsNext(w) }

ScoutInit ==
    /\ tick = 0
    /\ am = Idle
    /\ mc = Idle
    /\ sq = NewScoutingMission(SCOUT_MISSION_PRIORITY10)
    /\ world = [ born |-> 0, alive |-> {},
                 unitType |-> [u \in 1..MaxScoutUnits |-> "DOG"],
                 unitTile |-> [u \in 1..MaxScoutUnits |-> ScoutPath[1]],
                 overallVisibility |-> Undefined,
                 newScoutTarget |-> NoTarget,
                 waterTiles |-> {ScoutWaterTarget.pos},
                 visibleTiles |-> {},
                 nextLocalTarget |-> ScoutLocalTarget ]
    /\ ret = [op |-> "none"]
    /\ hist = [updates |-> 0, lost |-> 0, sent |-> {}]

\* the scouts of the world w that a mission in the state m counts
ScoutsOf(m, w) ==
    getUnitsOfTypes(w, 1..w.born,
                    IF m.isWaterTarget THEN waterScoutNames ELSE landScoutNames)

\* the scouts that were ordered toward the current target and have died
\* once the world is w
ScoutsLost(w) ==
    hist.lost + Cardinality((world.alive \ w.alive) \cap hist.sent)

\* the fields of the mission that the properties compare across an update
ScoutFields(m) ==
    [ scoutTarget             |-> m.scoutTarget,
      attemptsOnCurrentTarget |-> m.attemptsOnCurrentTarget,
      scoutTargetRefreshedAt  |-> m.scoutTargetRefreshedAt,
      scoutMinDistanceSq      |-> m.scoutMinDistanceSq,
      scoutTargetIsPermanent  |-> m.scoutTargetIsPermanent,
      isWaterTarget           |-> m.isWaterTarget ]

\* One update of the mission at the tick currentTick in the world w.  hist
\* counts the updates and keeps the scouts ordered toward the current target
\* and how many of them have died.
ScoutUpdateIn(w, currentTick) ==
    /\ LET r == ScoutingMission_onAiUpdate(sq, w, 1..w.born, currentTick)
       IN  /\ sq' = r.m
           /\ ret' = [op |-> "ScoutingMission._onAiUpdate", before |-> ScoutFields(sq),
                      action |-> r.action, orders |-> r.orders,
                      scouts |-> ScoutsOf(sq, w), lost |-> ScoutsLost(w)]
           /\ hist' = IF r.m.scoutTarget # sq.scoutTarget
                      THEN [updates |-> hist.updates + 1, lost |-> 0, sent |-> {}]
                      ELSE [updates |-> hist.updates + 1, lost |-> ScoutsLost(w),
                            sent |-> hist.sent \cup { o.unit : o \in r.orders }]
    /\ tick' = currentTick
    /\ world' = w
    /\ UNCHANGED <<am, mc>>

\* An update of the mission after a short or a long pause; a mission that
\* returned Disband has left the controller's list and is updated no more.
ScoutUpdate ==
    \E dt \in ScoutSteps, w \in ScoutWorlds(world) :
        /\ IF ret.op = "none" THEN TRUE ELSE ret.action.type # "disband"
        /\ hist.updates < MaxScoutUpdates
        /\ ScoutUpdateIn(w, tick + dt)

ScoutNext == ScoutUpdate

SpecScout == ScoutInit /\ [][ScoutNext]_vars

----------------------------------------------------------------------------
(* SpecScoutAttempts: a ScoutingMission that loses scout after scout *)

\* The worlds of a mission whose scouts are shot on their way: the land
\* target is the one the scouting manager has, it is never seen, and the
\* visibility stays at the limit.
ScoutAttemptWorlds(w) ==
    { [ x EXCEPT !.overallVisibility = VISIBILITY_DISBAND_PERCENT,
                 !.newScoutTarget = IF sq.scoutTarget = NoPoint
                                    THEN ScoutLandTarget ELSE NoTarget,
                 !.visibleTiles = {} ] :
        x \in ScoutUnitsNext(w) }

\* An update of the mission, one move cooldown after the last.
ScoutAttemptUpdate ==
    \E w \in ScoutAttemptWorlds(world) :
        /\ hist.updates < MaxAttemptUpdates
        /\ ScoutUpdateIn(w, tick + SCOUT_MOVE_COOLDOWN_TICKS + 1)

ScoutAttemptNext == ScoutAttemptUpdate

SpecScoutAttempts == ScoutInit /\ [][ScoutAttemptNext]_vars

\* C17: for a non-permanent scout target at most 5 attempts are made: once 5
\* scouts have been lost on the target, no scout is ordered toward it again.
C17_AtMostFiveAttempts ==
    (ret.op = "ScoutingMission._onAiUpdate"
        /\ ret.orders # {}
        /\ ~ret.before.scoutTargetIsPermanent)
    => ret.lost < MAX_ATTEMPTS_PER_TARGET

\* the least squared distance from a scout of the last update to the target
\* the mission had before it
ScoutNewMinSq ==
    CHOOSE d \in { SqDist(world.unitTile[u], ret.before.scoutTarget) : u \in ret.scouts } :
        \A u \in ret.scouts : d <= SqDist(world.unitTile[u], ret.before.scoutTarget)

\* the last update gave the move command and measured the nearest scout
\* closer to the target than the least distance recorded before
ScoutCameCloser ==
    /\ ret.op = "ScoutingMission._onAiUpdate"
    /\ ret.orders # {}
    /\ ret.before.scoutMinDistanceSq # Undefined
    /\ ScoutNewMinSq < ret.before.scoutMinDistanceSq

\* C18 as stated: whenever the nearest scout's distance to the current target
\* strictly decreases on a move-command tick, both the attempt counter and
\* the time budget of the target are reset.
C18_CloserResetsAttemptsAndBudget ==
    ScoutCameCloser =>
        /\ sq.scoutTargetRefreshedAt = tick
        /\ sq.attemptsOnCurrentTarget = 0

\* C18: whenever a move-command tick measures the nearest scout closer to the
\* target than the least distance recorded for it, the time budget of the
\* target restarts at the current tick; the attempt counter keeps its value
\* as long as the mission keeps a target, and the new distance is recorded
\* while the target stays the same.
C18_CloserResetsBudgetOnly ==
    ScoutCameCloser =>
        /\ sq.scoutTargetRefreshedAt = tick
        /\ sq.scoutTarget # NoPoint =>
              sq.attemptsOnCurrentTarget = ret.before.attemptsOnCurrentTarget
        /\ sq.scoutTarget = ret.before.scoutTarget =>
              sq.scoutMinDistanceSq = ScoutNewMinSq

\* The second scout sent to a target comes closer than the first ever was:
\* the timer restarts and the one attempt counted stays counted.
C18_Witness ==
    /\ ScoutCameCloser
    /\ ret.before.attemptsOnCurrentTarget = 1
    /\ sq.attemptsOnCurrentTarget = 1
    /\ ret.before.scoutTargetRefreshedAt < tick
    /\ sq.scoutTargetRefreshedAt = tick
    /\ sq.scoutTarget = ret.before.scoutTarget

\* the last update found a non-permanent target and did not end the mission
ScoutHadTarget ==
    /\ ret.op = "ScoutingMission._onAiUpdate"
    /\ ret.action.type # "disband"
    /\ ret.before.scoutTarget # NoPoint
    /\ ~ret.before.scoutTargetIsPermanent

\* more than MAX_TICKS_PER_TARGET ticks had passed at the last update since
\* the timer of the target was reset
ScoutBudgetSpent == tick > ret.before.scoutTargetRefreshedAt + MAX_TICKS_PER_TARGET

\* the last update found the land scouts stuck and switched to water scouts
ScoutSwitchedToWater == ~ret.before.isWaterTarget /\ sq.isWaterTarget

\* C19 as stated: a non-permanent target is dropped on the first update more
\* than 600 ticks after its timer was reset, whether or not the mission
\* holds a scout then.
C19_DroppedAfterBudget ==
    (ScoutHadTarget /\ ScoutBudgetSpent) => sq.scoutTarget = NoPoint

\* C19: on an update more than 600 ticks after the timer of a non-permanent
\* target was reset, the target is dropped if the mission holds a scout and
\* does not switch to water scouts, and is kept if the mission holds no
\* scout; up to 600 ticks a mission with a scout keeps a target that is
\* unseen, on the terrain expected and within its attempts.
C19_DroppedAfterBudgetWithScout ==
    ScoutHadTarget =>
        /\ (ScoutBudgetSpent /\ ret.scouts # {} /\ ~ScoutSwitchedToWater) =>
              /\ sq.scoutTarget = NoPoint
              /\ ret.action = noop
              /\ ret.orders = {}
        /\ ret.scouts = {} =>
              /\ sq.scoutTarget = ret.before.scoutTarget
              /\ ret.action.type = "requestUnits"
        /\ ( /\ ~ScoutBudgetSpent
             /\ ret.scouts # {}
             /\ ret.before.attemptsOnCurrentTarget <= MAX_ATTEMPTS_PER_TARGET
             /\ ret.before.scoutTarget \notin world.visibleTiles
             /\ IsWaterTile(world, ret.before.scoutTarget) = ret.before.isWaterTarget ) =>
              sq.scoutTarget = ret.before.scoutTarget

\* A scout is held more than 600 ticks after the timer was reset, with the
\* attempts within their limit: the target is dropped.
C19_Witness ==
    /\ ScoutHadTarget
    /\ ScoutBudgetSpent
    /\ ret.scouts # {}
    /\ ret.before.attemptsOnCurrentTarget <= MAX_ATTEMPTS_PER_TARGET
    /\ sq.scoutTarget = NoPoint

\* the overall visibility of the last update's world exceeds 0.9
ScoutVisibilityExceeded == world.overallVisibility > VISIBILITY_DISBAND_PERCENT

\* the mission had no target at the last update and the scouting manager
\* had none to give
ScoutNothingLeft ==
    /\ ret.before.scoutTarget = NoPoint
    /\ world.newScoutTarget = NoTarget

\* C20 as stated: an update returns Disband when the overall visibility
\* exceeds 0.9, and when the mission holds no target and the scouting manager
\* has none left; in every other case it does not return Disband.
C20_DisbandIffSeenOrNothingLeft ==
    ret.op = "ScoutingMission._onAiUpdate" =>
        (ret.action.type = "disband" <=> (ScoutVisibilityExceeded \/ ScoutNothingLeft))

\* C20: an update returns Disband exactly when the overall visibility exceeds
\* 0.9, or the mission holds a scout and no target and the scouting manager
\* has none left.
C20_DisbandIffSeenOrNothingLeftWithScout ==
    ret.op = "ScoutingMission._onAiUpdate" =>
        (ret.action.type = "disband"
            <=> (ScoutVisibilityExceeded \/ (ret.scouts # {} /\ ScoutNothingLeft)))

\* A mission with a scout, with the visibility at 0.9, finds the scouting
\* manager without a target and disbands.
C20_Witness ==
    /\ ret.op = "ScoutingMission._onAiUpdate"
    /\ ~ScoutVisibilityExceeded
    /\ ret.scouts # {}
    /\ ScoutNothingLeft
    /\ ret.action = disbandMission

----------------------------------------------------------------------------
(* SpecCombat: a naval squad that has gathered, with hostiles about *)

\* the most units the squad has
MaxCombatUnits == 2

\* the most updates of the squad
MaxCombatUpdates == 7

\* ticks between two updates of the squad
CombatSteps == {TARGET_UPDATE_INTERVAL_TICKS, STUCK_CHECK_INTERVAL + 1}

\* The units lie at anchor on these tiles of SquadTiles, close enough to
\* count as gathered.  Their ids are multiples of 90.
CombatTileOrder == << SquadTileOrder[4], SquadTileOrder[3], SquadTileOrder[5] >>

\* the ranges of their primary weapons
CombatRangeOrder == <<5, 6, 5>>

\* a hostile of the awareness
Hostile(id, pos, kind, zone, health10, neutral) ==
    [ id |-> id, pos |-> pos, kind |-> kind, zone |-> zone, health10 |-> health10,
      neutral |-> neutral, naval |-> zone = "Water" ]

\* a ship no unit can reach, next to a neutral one
WithdrawnScene ==
    { Hostile(6, <<48, 50>>, "combatant", "Water", 10, FALSE),
      Hostile(7, <<26, 50>>, "combatant", "Water", 10, TRUE) }

\* The hostiles in sight at the start: none; a ship with a building closer
\* by; a damaged ship with a naval yard in range of the first unit; a tank
\* just out of reach; a ship the second unit can reach and the first cannot;
\* the withdrawn ship; a destroyer and a tank; a naval yard beyond the scan
\* area; a lone building.
CombatScenes ==
    { {},
      { Hostile(1, <<34, 50>>, "combatant", "Water", 10, FALSE),
        Hostile(2, <<27, 50>>, "building", "Ground", 10, FALSE) },
      { Hostile(1, <<34, 50>>, "combatant", "Water", 5, FALSE),
        Hostile(3, <<28, 50>>, "NAYARD", "Ground", 10, FALSE) },
      { Hostile(4, <<37, 50>>, "combatant", "Ground", 10, FALSE) },
      { Hostile(5, <<20, 34>>, "combatant", "Water", 10, FALSE) },
      WithdrawnScene,
      { Hostile(8, <<30, 50>>, "combatant", "AmphibiousDestroyer", 10, FALSE),
        Hostile(9, <<28, 50>>, "combatant", "Ground", 10, FALSE) },
      { Hostile(3, <<54, 50>>, "NAYARD", "Ground", 10, FALSE) },
      { Hostile(2, <<30, 50>>, "building", "Ground", 10, FALSE) } }

CombatInit ==
    /\ tick = 0
    /\ am = Idle
    /\ mc = Idle
    /\ sq = NewNavalSquad(SquadTarget)
    /\ \E n \in 1..MaxCombatUnits, scene \in CombatScenes :
          world = [ units      |-> [i \in 1..n |-> 90 * i],
                    unitTile   |-> [u \in { 90 * i : i \in 1..n } |-> CombatTileOrder[u \div 90]],
                    unitName   |-> [u \in { 90 * i : i \in 1..n } |-> "DEST"],
                    unitStance |-> [u \in { 90 * i : i \in 1..n } |-> "None"],
                    unitRange  |-> [u \in { 90 * i : i \in 1..n } |-> CombatRangeOrder[u \div 90]],
                    hostiles   |-> scene,
                    startLocation |-> <<10, 10>> ]
    /\ ret = [op |-> "none"]
    /\ hist = [ updates |-> 0, state |-> "Gathering", lastOrderGiven |-> EmptyMap,
                lastCommand |-> 0, lastStuckCheck |-> 0, unitCombatStates |-> EmptyMap,
                attacked |-> {} ]

\* the units that an update at currentTick has given an attack order
GivenAttackOrder(squad, currentTick) ==
    { u \in DOMAIN squad.unitCombatStates :
        /\ squad.unitCombatStates[u].lastEngageTime = currentTick
        /\ squad.lastOrderGiven[u].orderType = "Attack" }

\* one update of the squad; before it the hostiles may have withdrawn.  The
\* history keeps the fields of the squad before the update and the units
\* that have been given an attack order up to and with it.
CombatUpdate ==
    \E dt \in CombatSteps, scene \in {world.hostiles, WithdrawnScene} :
        /\ hist.updates < MaxCombatUpdates
        /\ LET r == NavalSquad_onAiUpdate(sq, [world EXCEPT !.hostiles = scene], tick + dt)
           IN  /\ sq' = r.sq
               /\ ret' = [op |-> "NavalSquad.onAiUpdate", action |-> r.action,
                          pushed |-> r.pushed]
        /\ hist' = [ updates |-> hist.updates + 1, state |-> sq.state,
                     lastOrderGiven |-> sq.lastOrderGiven, lastCommand |-> sq.lastCommand,
                     lastStuckCheck |-> sq.lastStuckCheck,
                     unitCombatStates |-> sq.unitCombatStates,
                     attacked |-> hist.attacked \cup GivenAttackOrder(sq', tick + dt) ]
        /\ tick' = tick + dt
        /\ world' = [world EXCEPT !.hostiles = scene]
        /\ UNCHANGED <<am, mc>>

CombatNext == CombatUpdate

SpecCombat == CombatInit /\ [][CombatNext]_vars

----------------------------------------------------------------------------
(* Orders and command ticks of a naval squad *)

\* this update of the squad ran its command block
CombatCommandTick == ret.op = "NavalSquad.onAiUpdate" /\ sq.lastCommand = tick

\* this update of the squad ran its stuck check
CombatStuckCheckTick == ret.op = "NavalSquad.onAiUpdate" /\ sq.lastStuckCheck = tick

\* C21 as stated: a naval squad pushes orders to the action batcher only on
\* its command ticks, and two command ticks of the squad are at least 15
\* ticks apart.
C21_OrdersOnlyOnCommandTicks ==
    ret.op = "NavalSquad.onAiUpdate" =>
        /\ ret.pushed # <<>> => CombatCommandTick
        /\ (CombatCommandTick /\ hist.lastCommand # 0) =>
              tick - hist.lastCommand >= TARGET_UPDATE_INTERVAL_TICKS

\* C21: a naval squad pushes orders to the action batcher only on its command
\* ticks and on the ticks of its stuck checks, where stuck recovery gives its
\* orders; two command ticks of the squad are more than 15 ticks apart, and
\* two stuck checks more than 60.
C21_OrdersOnCommandOrStuckCheckTicks ==
    ret.op = "NavalSquad.onAiUpdate" =>
        /\ ret.pushed # <<>> => (CombatCommandTick \/ CombatStuckCheckTick)
        /\ (CombatCommandTick /\ hist.lastCommand # 0) =>
              tick - hist.lastCommand > TARGET_UPDATE_INTERVAL_TICKS
        /\ (CombatStuckCheckTick /\ hist.lastStuckCheck # 0) =>
              tick - hist.lastStuckCheck > STUCK_CHECK_INTERVAL

\* stuck recovery pushes an order on a stuck check that is no command tick,
\* after the squad has had a command tick
C21_Witness ==
    /\ CombatStuckCheckTick
    /\ ~CombatCommandTick
    /\ hist.lastCommand # 0
    /\ ret.pushed # <<>>

\* C22: for each unit, a naval squad never pushes to the action batcher an
\* order equal to the last order it pushed for that unit, whatever the
\* updates before and whatever the state of the squad.
C22_NoOrderPushedTwice ==
    ret.op = "NavalSquad.onAiUpdate" =>
        \A i \in DOMAIN ret.pushed : \A prior \in PriorOrders(i) :
            ret.pushed[i] # prior

\* on a command tick a unit is given the attack order it already had, and
\* nothing is pushed for it
C22_Witness ==
    /\ CombatCommandTick
    /\ \E u \in DOMAIN hist.lastOrderGiven :
          /\ hist.lastOrderGiven[u].orderType = "Attack"
          /\ u \in DOMAIN sq.unitCombatStates
          /\ sq.unitCombatStates[u].lastEngageTime = tick
          /\ sq.lastOrderGiven[u] = hist.lastOrderGiven[u]
          /\ \A i \in DOMAIN ret.pushed : ret.pushed[i].unitId # u

----------------------------------------------------------------------------
(* Combat micro of a naval squad *)

\* the hostiles in scan range, which the squad takes around its attack leader
CombatNearby ==
    HostilesNearPoint(world, world.unitTile[attackLeader(world, world.units)],
                      ATTACK_SCAN_AREA)

\* this update ran combat micro: a command tick of an Attacking squad that
\* holds together, with a combatant among the hostiles in scan range
CombatMicro ==
    /\ CombatCommandTick
    /\ hist.state = "Attacking"
    /\ ~AttackingScattered(world)
    /\ \E h \in CombatNearby : h.kind = "combatant"

\* the unit's order is to attack the target
AttackOrdered(u, target) ==
    /\ u \in DOMAIN sq.lastOrderGiven
    /\ sq.lastOrderGiven[u] = [unitId |-> u, orderType |-> "Attack", targetId |-> target.id]

\* the combatants in scan range whose weight for the unit is above -1
CombatantsInReach(u) ==
    { t \in CombatNearby :
        /\ t.kind = "combatant"
        /\ calculateTargetWeight(world, u, t) > StartWeight(world, u) }

\* the heaviest of them, the first reported of equally heavy ones
HeaviestCombatant(u) ==
    FirstHostile({ t \in CombatantsInReach(u) : \A s \in CombatantsInReach(u) :
                     calculateTargetWeight(world, u, s) <= calculateTargetWeight(world, u, t) })

\* C23 as stated: in combat micro every unit is ordered to attack the hostile
\* of the greatest attack weight among the hostiles in scan range, combatant
\* or structure.
C23_AttacksHeaviestHostile ==
    CombatMicro =>
        \A i \in DOMAIN world.units :
            \E t \in CombatNearby :
                /\ AttackOrdered(world.units[i], t)
                /\ \A s \in CombatNearby :
                      calculateTargetWeight(world, world.units[i], s)
                         <= calculateTargetWeight(world, world.units[i], t)

\* C23: in combat micro a unit for which some combatant in scan range weighs
\* more than -1 is ordered to attack the heaviest such combatant, however
\* heavy the structures in scan range are; but if a naval yard in scan range
\* lies within the unit's weapon range and that combatant lies farther than
\* one and a half weapon ranges, the unit is ordered to attack the naval yard.
\* A unit for which no combatant weighs more than -1 gets a move order.
C23_AttacksHeaviestCombatant ==
    CombatMicro =>
        \A i \in DOMAIN world.units :
            IF CombatantsInReach(world.units[i]) = {}
            THEN sq.lastOrderGiven[world.units[i]].orderType = "Move"
            ELSE IF /\ NearbyBuilding(world, world.units[i], CombatNearby) # {}
                    /\ BeyondOneAndAHalfRange(world, world.units[i],
                                              HeaviestCombatant(world.units[i]))
                 THEN \E t \in CombatNearby :
                         /\ t.kind = "NAYARD"
                         /\ AttackOrdered(world.units[i], t)
                 ELSE AttackOrdered(world.units[i], HeaviestCombatant(world.units[i]))

\* a unit is ordered to attack a combatant while a structure in scan range
\* weighs more
C23_Witness ==
    /\ CombatMicro
    /\ \E i \in DOMAIN world.units : \E t \in CombatNearby, b \in CombatNearby :
          /\ t.kind = "combatant"
          /\ AttackOrdered(world.units[i], t)
          /\ b.kind # "combatant"
          /\ calculateTargetWeight(world, world.units[i], b)
                > calculateTargetWeight(world, world.units[i], t)

\* in combat micro the unit found no target and was given a move order
CombatFallback(u) ==
    /\ CombatMicro
    /\ sq.lastOrderGiven[u].orderType = "Move"

\* the squad-mates that count as engaged when the unit takes its turn: those
\* with a combat state whose lastEngageTime is less than 150 ticks old, the
\* state being that of this update for the mates before the unit in the
\* squad's list and that of the update before for the mates after it
MatesEngaged(u) ==
    { i \in DOMAIN world.units :
        /\ world.units[i] # u
        /\ IF i < IndexOf(world.units, u) + 1
           THEN tick - sq.unitCombatStates[world.units[i]].lastEngageTime
                   < MAX_IDLE_COMBAT_TICKS
           ELSE /\ world.units[i] \in DOMAIN hist.unitCombatStates
                /\ tick - hist.unitCombatStates[world.units[i]].lastEngageTime
                      < MAX_IDLE_COMBAT_TICKS }

\* the unit had a combat state before this update whose lastEngageTime is
\* more than 150 ticks old
UnitIdle(u) ==
    /\ u \in DOMAIN hist.unitCombatStates
    /\ tick - hist.unitCombatStates[u].lastEngageTime > MAX_IDLE_COMBAT_TICKS

\* the fallback of a unit without a target, in its order of priority
FallbackInOrder(u) ==
    IF MatesEngaged(u) # {}
    THEN \E i \in MatesEngaged(u) :
            /\ sq.lastOrderGiven[u].point = world.unitTile[world.units[i]]
            /\ \A j \in MatesEngaged(u) :
                  SqDist(world.unitTile[u], world.unitTile[world.units[i]])
                     <= SqDist(world.unitTile[u], world.unitTile[world.units[j]])
    ELSE IF UnitIdle(u)
         THEN sq.lastOrderGiven[u].point = SearchTarget(world, u)
         ELSE sq.lastOrderGiven[u].point = HoldTarget(u, world.units, SquadTarget)

\* C24 as stated: a unit without a target moves to the nearest squad-mate that
\* engaged within the last 150 ticks, else makes a search move if it has not
\* engaged itself for more than 150 ticks, else holds its place around the
\* target point; and a squad-mate that has never been given an attack order
\* does not count as engaged.
C24_FallbackOrderAmongAttackers ==
    \A i \in DOMAIN world.units :
        CombatFallback(world.units[i]) =>
            /\ FallbackInOrder(world.units[i])
            /\ \A j \in MatesEngaged(world.units[i]) : world.units[j] \in hist.attacked

\* a point inside the bounds the squad clamps to
InsideMapBounds(p) == clampToMapBoundaries(p) = p

\* C26 as stated: every target point that a naval squad puts in a move order
\* lies inside the map bounds [1, width - 2] x [1, height - 2].
C26_MoveTargetsInsideMap ==
    ret.op = "NavalSquad.onAiUpdate" =>
        \A i \in DOMAIN ret.pushed :
            ret.pushed[i].orderType = "Move" => InsideMapBounds(ret.pushed[i].point)

\* the hostile lies farther from the unit than 2.5 times the unit's weapon
\* range
BeyondDecay(u, target) ==
    4 * SqDist(world.unitTile[u], target.pos)
        > 25 * maxRange(world, u) * maxRange(world, u)

\* a hostile farther than 2.5 weapon ranges weighs at most zero
FarHostileWeighsNothing ==
    \A u \in DOMAIN world.unitTile : \A t \in world.hostiles :
        BeyondDecay(u, t) => calculateTargetWeight(world, u, t) <= 0

\* C30 as stated: a hostile farther than 2.5 times the attacking unit's
\* weapon range has an attack weight of at most zero and is never chosen as
\* that unit's attack target by findBestTarget.
C30_FarHostileNeverChosen ==
    /\ FarHostileWeighsNothing
    /\ \A u \in DOMAIN world.unitTile : \A t \in world.hostiles :
          (CombatMicro /\ BeyondDecay(u, t)) => ~AttackOrdered(u, t)

----------------------------------------------------------------------------
(* SupalosaBot: the bot's tick handler *)

\* const botApm = 300, as botRate = botApm / 60 actions per second
BOT_RATE == 5

\* the modulus of the mission logic in onGameTick
MISSION_TICK_MODULUS == 3

\* the bot after its constructor: no awareness, no tickRatio, and a mission
\* controller that has not been updated
NewSupalosaBot ==
    [ matchAwareness |-> FALSE, tickRatio |-> 0, missionUpdatedAt |-> 0 - 1 ]

\* onGameStart: tickRatio = Math.ceil(gameRate / botRate)
SupalosaBot_onGameStart(bot, gameRate) ==
    [ bot EXCEPT !.tickRatio = (gameRate + BOT_RATE - 1) \div BOT_RATE,
                 !.matchAwareness = TRUE ]

\* missionController.onAiUpdate as the bot sees it: the controller's pending
\* requests are those of the mission updates of this tick
MissionLogic(bot, currentTick) ==
    IF currentTick % MISSION_TICK_MODULUS = 0
    THEN [ bot EXCEPT !.missionUpdatedAt = currentTick ]
    ELSE bot

\* onGameTick.  The outcome names what ran: the awareness update, the call to
\* quitGame, the number of mission controller updates, and the tick whose
\* mission updates the tally handed to the queue controller comes from (-1
\* for the empty tally of a controller never updated).
SupalosaBot_onGameTick(bot, currentTick, destitute) ==
    IF ~bot.matchAwareness
    THEN [ bot |-> bot, decision |-> FALSE, quit |-> FALSE, missionUpdates |-> 0,
           production |-> FALSE, requestsOf |-> 0 - 1 ]
    ELSE IF currentTick % bot.tickRatio = 0
         THEN [ bot |-> MissionLogic(bot, currentTick),
                decision |-> TRUE,
                quit |-> destitute,
                missionUpdates |-> IF currentTick % MISSION_TICK_MODULUS = 0 THEN 1 ELSE 0,
                production |-> TRUE,
                requestsOf |-> MissionLogic(bot, currentTick).missionUpdatedAt ]
         ELSE [ bot |-> bot, decision |-> FALSE, quit |-> FALSE, missionUpdates |-> 0,
                production |-> FALSE, requestsOf |-> 0 - 1 ]

----------------------------------------------------------------------------
(* SpecBot: the host starts the game and calls the bot on every game tick *)

\* the game ticks the host runs
MaxBotTicks == 24

\* the tick rates of the game speeds the host may run at
BotTickRates == {10, 15, 20, 30, 45, 60}

BotInit ==
    /\ tick = 0
    /\ world = [tickRate |-> 0, started |-> FALSE]
    /\ am = Idle
    /\ mc = NewSupalosaBot
    /\ sq = Idle
    /\ ret = [op |-> "none"]
    /\ hist = [started |-> FALSE]

\* the host starts the game at one of its speeds
BotGameStart ==
    \E gameRate \in BotTickRates :
        /\ ~world.started
        /\ mc' = SupalosaBot_onGameStart(mc, gameRate)
        /\ world' = [tickRate |-> gameRate, started |-> TRUE]
        /\ ret' = [op |-> "onGameStart"]
        /\ hist' = [started |-> TRUE]
        /\ UNCHANGED <<tick, am, sq>>

\* the host runs one game tick and calls onGameTick; the bot may have lost
\* all its army, production and base units by then.  The host may call the
\* handler before it has started the game.
BotGameTick ==
    \E destitute \in BOOLEAN :
        /\ tick < MaxBotTicks
        /\ LET r == SupalosaBot_onGameTick(mc, tick + 1, destitute)
           IN  /\ mc' = r.bot
               /\ ret' = [ op |-> "onGameTick", decision |-> r.decision, quit |-> r.quit,
                           missionUpdates |-> r.missionUpdates,
                           production |-> r.production, requestsOf |-> r.requestsOf ]
        /\ tick' = tick + 1
        /\ UNCHANGED <<world, am, sq, hist>>

BotNext == BotGameStart \/ BotGameTick

SpecBot == BotInit /\ [][BotNext]_vars

\* tickRatio = ceil(tickRate / 5)
ScheduledDecisionTick ==
    tick % ((world.tickRate + 4) \div 5) = 0

\* C25 as stated: after onGameStart the bot runs MissionController.onAiUpdate
\* exactly once on every game tick t with t mod tickRatio = 0, where
\* tickRatio = ceil(tickRate / 5), and on no other tick; and the tally of
\* requested units handed to production on such a tick comes from the
\* mission updates of that same tick.
C25_MissionsRunOnEveryDecisionTick ==
    (ret.op = "onGameTick" /\ world.started) =>
        /\ ret.missionUpdates = IF ScheduledDecisionTick THEN 1 ELSE 0
        /\ ScheduledDecisionTick => (ret.production /\ ret.requestsOf = tick)

----------------------------------------------------------------------------
(* SpecThrow: the controller when the scouting manager hands out a target
   that is not on the map *)

\* a scouting target whose tile mapApi.getTile does not find
OffMapScoutTarget == [pos |-> <<-1, 30>>, permanent |-> TRUE]

\* The worlds of ControllerWorlds with the target off the map as the one
\* target the scouting manager hands out.
ThrowWorlds(w) ==
    { [x EXCEPT !.newScoutTarget = IF @ = NoTarget THEN NoTarget ELSE OffMapScoutTarget] :
        x \in ControllerWorlds(w) }

ThrowTick ==
    \E dt \in ControllerSteps, w \in ThrowWorlds(world) :
        /\ tick + dt <= MaxControllerTicks * 60
        /\ \E r \in MissionController_onAiUpdate(mc, w, tick + dt) :
              /\ mc' = [r.c EXCEPT !.calls = <<>>]
              /\ ret' = [op |-> "MissionController.onAiUpdate", actions |-> r.actions]
              /\ hist' = [calls |-> r.c.calls,
                          disbanded |-> hist.disbanded \cup
                              { r.actions[i].name : i \in
                                  { k \in DOMAIN r.actions : r.actions[k].type = "disband" } }]
        /\ tick' = tick + dt
        /\ world' = w
        /\ UNCHANGED <<am, sq>>

ThrowNext == ThrowTick

SpecThrow == ControllerInit /\ [][ThrowNext]_vars

\* the action the mission of the given id returned in the last update
ActionsOf(actions, id) == { actions[k].type : k \in { j \in DOMAIN actions : actions[j].id = id } }

\* C27: in a tick where the update of a mission throws, that mission leaves
\* the list, every mission that was active before the tick still has its
\* update run, and another mission stays active when its own update asked
\* for units, or returned noop while it is locked and holds a living unit.
C27_ThrowDisbandsOnlyThatMission ==
    [][ (\E k \in DOMAIN ret'.actions : ret'.actions[k].type = "throw")
        => /\ \A k \in DOMAIN ret'.actions :
                 ret'.actions[k].type = "throw"
                     => ret'.actions[k].id \notin MissionIds(mc'.missions)
           /\ \A i \in DOMAIN mc.missions :
                 LET mission == mc.missions[i]
                     types   == ActionsOf(ret'.actions, mission.id)
                 IN  /\ types # {}
                     /\ ("requestUnits" \in types
                            \/ ("noop" \in types /\ LockedMission(mission)
                                  /\ mission.units \cap world'.alive # {}))
                          => mission.id \in MissionIds(mc'.missions) ]_vars

\* The update of the ScoutingMission has just thrown while a mission created
\* after it was updated in the same tick and is still active.
C27_Witness ==
    /\ ret.op = "MissionController.onAiUpdate"
    /\ \E k, j \in DOMAIN ret.actions :
          /\ ret.actions[k].type = "throw"
          /\ k < j
          /\ ret.actions[j].type \in {"noop", "requestUnits"}
          /\ ret.actions[j].id \in MissionIds(mc.missions)
          /\ ret.actions[k].id \notin MissionIds(mc.missions)

----------------------------------------------------------------------------
(* ScoutingMissionFactory: the cooldown between two scouting missions *)

\* In the controller update whose addMission calls are given,
\* ScoutingMissionFactory.maybeCreateMissions created a mission: it runs
\* first in the update, so its call is the first of the log; the call of
\* onMissionFailed comes after the retreat of the AttackMission that ended.
ScoutCreated(calls) ==
    /\ calls # <<>>
    /\ calls[1].name = GlobalScout
    /\ calls[1].ok

\* C28 as stated: two successful mission creations by
\* ScoutingMissionFactory.maybeCreateMissions are at least
\* SCOUT_COOLDOWN_TICKS apart, here in two updates of the controller that
\* follow each other, also when the created mission disbands on its first
\* update.
C28_ScoutCreationsCooldownApart ==
    [][ (ScoutCreated(hist.calls) /\ ScoutCreated(hist'.calls))
            => tick' - tick >= SCOUT_COOLDOWN_TICKS ]_vars

----------------------------------------------------------------------------
(* SpecFactories: AttackMissionFactory and NavalMissionFactory called update
   after update while the missions they created move on *)

\* new NavalMissionFactory()
NewNavalMissionFactory == [lastNavalCheckAt |-> 0]

NAVAL_UNIT_TYPES == {"DEST", "AEGIS", "DLPH", "CARRIER"}

\* the search radius of the factory: Math.min(100, Math.min(width, height) / 2)
NavalFactorySearchRadius == Min(100, Min(RealMapSize.width, RealMapSize.height) \div 2)

\* The water targets of the factory: the hostiles near the start location
\* that are not neutral, lie inside the border of the map, and are ships or
\* naval yards.
waterTargets(w) ==
    { h \in HostilesNearPoint2d(w, w.startLocation, NavalFactorySearchRadius) :
        /\ ~h.neutral
        /\ ~(h.pos[1] < 1 \/ h.pos[1] >= RealMapSize.width - 1
               \/ h.pos[2] < 1 \/ h.pos[2] >= RealMapSize.height - 1)
        /\ (h.zone = "Water" \/ h.kind \in {"NAYARD", "GAYARD"}) }

\* NavalMissionFactory.maybeCreateMissions: the factory and the controller
\* it leaves
NavalMissionFactory_maybeCreateMissions(f, c, w, currentTick) ==
    IF currentTick < f.lastNavalCheckAt + NAVAL_CHECK_INTERVAL_TICKS
    THEN [f |-> f, c |-> c]
    ELSE IF \E i \in DOMAIN c.missions :
                c.missions[i].kind = "naval" /\ c.missions[i].m.state = "Preparing"
    THEN [f |-> f, c |-> c]
    ELSE IF waterTargets(w) = {} THEN [f |-> f, c |-> c]
    ELSE LET target      == FirstHostile(waterTargets(w))
             targetPoint == << Max(1, Min(target.pos[1], RealMapSize.width - 2)),
                               Max(1, Min(target.pos[2], RealMapSize.height - 2)) >>
             squadName   == <<"naval_">> \o Digits(currentTick)
             tryNaval    == addMission(c, NewMission("naval", squadName, {},
                                NewProgressNavalMission(10 * NAVAL_MISSION_INITIAL_PRIORITY,
                                    MainRallyPoint, targetPoint, NAVAL_ATTACK_RADIUS,
                                    NAVAL_UNIT_TYPES, WallClockNow)))
         IN  [ f |-> IF tryNaval.ok THEN [f EXCEPT !.lastNavalCheckAt = currentTick] ELSE f,
               c |-> tryNaval.c ]

\* the most factory updates of a behaviour
MaxFactoryUpdates == 5

\* ticks between two updates of the factories
FactorySteps == {20, 280}

\* What the awareness shows at an update: nothing, a naval yard on the
\* border row of the map, or a tank and a ship.
FactoryScenes ==
    { {},
      { Hostile(3, <<10, 0>>, "NAYARD", "Ground", 10, FALSE) },
      { Hostile(1, <<20, 10>>, "combatant", "Ground", 10, FALSE),
        Hostile(2, <<10, 30>>, "combatant", "Water", 10, FALSE) } }

FactoryInit ==
    /\ tick = 0
    /\ am = Idle
    /\ sq = NewNavalMissionFactory
    /\ mc = NewMissionController
    /\ world = [ hostiles |-> {}, unexploredEnemyStarts |-> {},
                 startLocation |-> <<10, 10>>, alive |-> {} ]
    /\ ret = [op |-> "none"]
    /\ hist = [ updates |-> 0, attackCreatedAt |-> {}, navalCreatedAt |-> {} ]

\* the ticks at which the calls of an update created a mission of the name
CreatedAt(calls, prefix, currentTick) ==
    IF \E k \in DOMAIN calls : calls[k].ok /\ Head(calls[k].name) = prefix
    THEN {currentTick} ELSE {}

\* One update of the controller as far as the factories go: both run,
\* AttackMissionFactory first.
FactoryUpdate ==
    \E dt \in FactorySteps, scene \in FactoryScenes :
        /\ hist.updates < MaxFactoryUpdates
        /\ LET w  == [world EXCEPT !.hostiles = scene]
               c0 == [mc EXCEPT !.calls = <<>>]
           IN  \E c1 \in AttackMissionFactory_maybeCreateMissions(c0, w, tick + dt) :
                  LET r == NavalMissionFactory_maybeCreateMissions(sq, c1, w, tick + dt)
                  IN  /\ mc' = [r.c EXCEPT !.calls = <<>>]
                      /\ sq' = r.f
                      /\ ret' = [op |-> "maybeCreateMissions", calls |-> r.c.calls]
                      /\ hist' = [ updates |-> hist.updates + 1,
                                   attackCreatedAt |->
                                       IF CreatedAt(r.c.calls, "attack_", tick + dt) # {}
                                       THEN {tick + dt} ELSE hist.attackCreatedAt,
                                   navalCreatedAt |->
                                       IF CreatedAt(r.c.calls, "naval_", tick + dt) # {}
                                       THEN {tick + dt} ELSE hist.navalCreatedAt ]
        /\ tick' = tick + dt
        /\ UNCHANGED <<am, world>>

\* What the updates of the missions do to the list the factories read: a
\* mission that is Preparing goes on to Attacking, a mission past Preparing
\* ends and leaves the list; the missions end oldest first.
FactoryMissionMovesOn ==
    \E i \in DOMAIN mc.missions :
        /\ IF mc.missions[i].m.state = "Preparing" THEN TRUE ELSE i = 1
        /\ mc' = IF mc.missions[i].m.state = "Preparing"
                 THEN [mc EXCEPT !.missions[i].m.state = "Attacking"]
                 ELSE [mc EXCEPT !.missions = SelectSeq2(mc.missions, {mc.missions[i].id})]
        /\ ret' = [op |-> "Mission.onAiUpdate"]
        /\ UNCHANGED <<tick, world, am, sq, hist>>

FactoryNext == FactoryUpdate \/ FactoryMissionMovesOn

SpecFactories == FactoryInit /\ [][FactoryNext]_vars

\* the two ticks are at least the cooldown apart
Apart(earlier, later, cooldown) == \A t \in earlier, u \in later : u - t >= cooldown

\* C29: a creation by AttackMissionFactory comes at least 60 ticks after its
\* last one, a creation by NavalMissionFactory at least 300 ticks after its
\* last one and not before tick 300, and a factory's cooldown restarts only in
\* an update in which it created a mission.
C29_FactoryCooldowns ==
    [][ LET attackNow == CreatedAt(ret'.calls, "attack_", tick')
            navalNow  == CreatedAt(ret'.calls, "naval_", tick')
        IN  ret'.op = "maybeCreateMissions"
            => /\ Apart(hist.attackCreatedAt, attackNow, VISIBLE_TARGET_ATTACK_COOLDOWN_TICKS)
               /\ Apart(hist.navalCreatedAt, navalNow, NAVAL_CHECK_INTERVAL_TICKS)
               /\ Apart({0}, navalNow, NAVAL_CHECK_INTERVAL_TICKS)
               /\ (mc'.lastAttackAt # mc.lastAttackAt) => attackNow # {}
               /\ (sq'.lastNavalCheckAt # sq.lastNavalCheckAt) => navalNow # {} ]_vars

\* NavalMissionFactory has just created its second mission, exactly one
\* cooldown after the first, which it created at tick 300; in the same
\* update AttackMissionFactory created a mission that is not its first.
C29_Witness ==
    /\ ret.op = "maybeCreateMissions"
    /\ tick = 2 * NAVAL_CHECK_INTERVAL_TICKS
    /\ hist.navalCreatedAt = {tick}
    /\ hist.attackCreatedAt = {tick}
    /\ \E i \in DOMAIN mc.missions :
          mc.missions[i].name = <<"naval_">> \o Digits(NAVAL_CHECK_INTERVAL_TICKS)
    /\ \E i \in DOMAIN mc.missions :
          mc.missions[i].kind = "attack" /\ mc.missions[i].m.state # "Preparing"

----------------------------------------------------------------------------
(* The per-unit caches of a naval squad *)

\* the unit ids that have an entry in one of the squad's per-unit caches
CachedUnitIds(squad) ==
    DOMAIN squad.lastOrderGiven \cup DOMAIN squad.unitPositionHistory
      \cup DOMAIN squad.stuckStates \cup DOMAIN squad.unitCombatStates
      \cup DOMAIN squad.lastPathfindingTime

\* the ids of the units the mission of the squad holds
SquadUnitIds(w) == { w.units[i] : i \in DOMAIN w.units }

\* C31 as stated: after any sequence of updates the per-unit caches of the
\* squad (lastOrderGiven, unitPositionHistory, stuckStates, unitCombatStates,
\* lastPathfindingTime) hold only ids of units currently in the squad.
C31_CachesHoldOnlySquadUnits ==
    ret.op = "NavalMission._onAiUpdate" =>
        CachedUnitIds(sq.squad) \subseteq SquadUnitIds(world)

----------------------------------------------------------------------------
(* AttackMissions that are Preparing *)

\* the AttackMissions of the list that are Preparing
PreparingAttackMissions(missions) ==
    { i \in DOMAIN missions :
        missions[i].kind = "attack" /\ missions[i].m.state = "Preparing" }

\* C32: with AttackMissions created by AttackMissionFactory.maybeCreateMissions
\* alone, at most one AttackMission of the controller's list is Preparing at
\* every tick.
C32_AtMostOnePreparingAttackMission ==
    Cardinality(PreparingAttackMissions(mc.missions)) <= 1

\* An enemy is in sight and the cooldown of the factory has passed, and the
\* list holds an AttackMission that is Preparing next to one that is
\* Attacking: the factory ran and created nothing.
C32_Witness ==
    /\ ret.op = "MissionController.onAiUpdate"
    /\ world.hostiles # {}
    /\ tick >= mc.lastAttackAt + VISIBLE_TARGET_ATTACK_COOLDOWN_TICKS
    /\ PreparingAttackMissions(mc.missions) # {}
    /\ \A k \in DOMAIN hist.calls : Head(hist.calls[k].name) # "attack_"
    /\ \E i \in DOMAIN mc.missions :
          mc.missions[i].kind = "attack" /\ mc.missions[i].m.state = "Attacking"

----------------------------------------------------------------------------
(* The states an AttackMission goes through *)

\* C33: the state of an AttackMission changes only from Preparing to
\* Attacking: it is never Retreating, it never returns to Preparing, and
\* isUnitsLocked, once true, stays true.
C33_OnlyPreparingToAttacking ==
    [][ /\ am'.state \in {"Preparing", "Attacking"}
        /\ am'.state # am.state => (am.state = "Preparing" /\ am'.state = "Attacking")
        /\ AttackMission_isUnitsLocked(am) => AttackMission_isUnitsLocked(am') ]_vars

\* An Attacking mission has just been updated while its target was no longer
\* valid, and it is still Attacking and locked.
C33_Witness ==
    /\ ret.op = "AttackMission._onAiUpdate"
    /\ ret.stateBefore = "Attacking"
    /\ ~CurrentTargetStillValid(am, world)
    /\ am.state = "Attacking"
    /\ AttackMission_isUnitsLocked(am)

\* ---------------------------------------------------------------------
\* C34: what a Preparing update of an AttackMission with at least 3 units
\* ends with

\* The update just made ran handlePreparingState on a mission holding at
\* least 3 units whose centroid is known.
PreparingUpdateWithSquad ==
    /\ ret.op = "AttackMission._onAiUpdate"
    /\ ret.stateBefore = "Preparing"
    /\ CountUnits(world.held) >= MIN_ATTACK_SQUAD_SIZE
    /\ world.centerOfMass # NoPoint

\* The update just made returned RequestUnits.
RequestedUnits ==
    /\ ret.op = "AttackMission._onAiUpdate"
    /\ ret.action.type = "requestUnits"

\* totalUnits < targetTotal * FORCE_ATTACK_THRESHOLD, with no more than
\* MAX_GATHER_TIME of gather time: the tests handlePreparingState makes
\* before it asks for units.
WouldRequestUnits ==
    /\ 10 * CountUnits(world.held) < FORCE_ATTACK_THRESHOLD10 * CountUnits(am.composition)
    /\ tick - am.gatherStartTime <= MAX_GATHER_TIME

\* C34: every Preparing update of an AttackMission that holds at least 3
\* units with a known centroid either moves the mission to Attacking or
\* returns the request-naval-mission action, and RequestUnits is returned
\* only while the mission holds fewer than 3 units.
C34_SquadOfThreeNeverRequestsUnits ==
    /\ PreparingUpdateWithSquad =>
          (am.state = "Attacking" \/ ret.action.type = "request_naval_mission")
    /\ RequestedUnits => CountUnits(world.held) < MIN_ATTACK_SQUAD_SIZE

\* A mission holding 3 of its 5 units, short of the force-attack threshold
\* and of the gather time, is answered with the request for a naval mission
\* and stays Preparing.
C34_Witness ==
    /\ PreparingUpdateWithSquad
    /\ WouldRequestUnits
    /\ CountUnits(world.held) = MIN_ATTACK_SQUAD_SIZE
    /\ ret.action.type = "request_naval_mission"
    /\ am.state = "Preparing"

\* ---------------------------------------------------------------------
\* C35: the states a NavalSquad is ever in

\* C35: in every reachable state a NavalSquad is Gathering or Attacking; no
\* sequence of updates takes it to Retreating or Exploring.
C35_SquadGathersOrAttacks ==
    /\ sq.state \in {"Gathering", "Attacking"}
    /\ hist.state \in {"Gathering", "Attacking"}

\* An Attacking squad whose units are scattered past the attack radius, the
\* one case in which the Attacking branch assigns the state, is sent to
\* Gathering.
C35_Witness ==
    /\ ret.op = "NavalSquad.onAiUpdate"
    /\ hist.state = "Attacking"
    /\ AttackingScattered(world)
    /\ sq.lastCommand = tick
    /\ sq.state = "Gathering"

----------------------------------------------------------------------------
(* SpecHysteresis: the squad of SpecSquad, with the scatter of its units at
   its last move from Gathering to Attacking kept beside it *)

\* no move from Gathering to Attacking yet
NotAttackedYet == [n |-> 0]

\* what the squad's units looked like at a move from Gathering to Attacking
ScatterOf(w) ==
    [ n |-> Len(w.units),
      maxDistance |-> Mission_getMaxDistanceToCenterOfMass(w),
      centerOnTile |-> CenterHasTile(Mission_getCenterOfMass(w)) ]

HysteresisInit ==
    /\ tick = 0
    /\ am = Idle
    /\ mc = Idle
    /\ sq = NewNavalSquad(SquadTarget)
    /\ \E n \in 2..MaxSquadUnits :
          world = [ units      |-> [i \in 1..n |-> i],
                    unitTile   |-> [u \in 1..n |-> SquadTileOrder[u]],
                    unitName   |-> [u \in 1..n |-> "DEST"],
                    unitStance |-> [u \in 1..n |-> "None"],
                    hostiles   |-> {},
                    startLocation |-> <<10, 10>> ]
    /\ ret = [op |-> "none"]
    /\ hist = [state |-> "Gathering", attackingSince |-> NotAttackedYet]

HysteresisUpdate ==
    \E dt \in SquadSteps, w \in SquadWorlds(world) :
        /\ tick + dt <= MaxSquadChecks * (STUCK_CHECK_INTERVAL + 1)
        /\ LET r == NavalSquad_onAiUpdate(sq, w, tick + dt)
           IN  /\ sq' = r.sq
               /\ ret' = [op |-> "NavalSquad.onAiUpdate", action |-> r.action,
                          pushed |-> r.pushed]
               /\ hist' = [state |-> sq.state,
                           attackingSince |->
                               IF sq.state = "Gathering" /\ r.sq.state = "Attacking"
                               THEN ScatterOf(w) ELSE hist.attackingSince]
        /\ tick' = tick + dt
        /\ world' = w
        /\ UNCHANGED <<am, mc>>

HysteresisNext == HysteresisUpdate

SpecHysteresis == HysteresisInit /\ [][HysteresisNext]_vars

\* later - earlier > MAX_GATHER_RADIUS - MIN_GATHER_RADIUS for two distances
\* sqrt(square) / count over the same count: with g the gap times the count,
\* sqrt(D2) > g + sqrt(D1), squared twice.
GrownByMoreThanGap(earlier, later) ==
    LET g == (MAX_GATHER_RADIUS - MIN_GATHER_RADIUS) * earlier.count
        L == later.square - earlier.square - g * g
    IN  /\ L > 0
        /\ L * L > 4 * g * g * earlier.square

\* the update just made took the squad from Attacking back to Gathering
BackToGathering ==
    /\ ret.op = "NavalSquad.onAiUpdate"
    /\ hist.state = "Attacking"
    /\ sq.state = "Gathering"

\* C36: with the unit count unchanged and the centroid on a tile, a squad
\* that moved from Gathering to Attacking moves back to Gathering only when
\* the centroid-to-farthest distance has grown by more than 3
\* (MAX_GATHER_RADIUS - MIN_GATHER_RADIUS) since that move; it does not
\* alternate between the two states at a constant distance.
C36_BackToGatheringNeedsGrowth ==
    ( /\ BackToGathering
      /\ hist.attackingSince.n = Len(world.units)
      /\ hist.attackingSince.centerOnTile )
        => GrownByMoreThanGap(hist.attackingSince.maxDistance,
                              Mission_getMaxDistanceToCenterOfMass(world))

\* A squad that went to Attacking with its centroid on a tile goes back to
\* Gathering after its last unit sailed away.
C36_Witness ==
    /\ BackToGathering
    /\ hist.attackingSince.n = Len(world.units)
    /\ hist.attackingSince.centerOnTile
    /\ hist.attackingSince.maxDistance.square > 0

\* ---------------------------------------------------------------------
\* C38: when an Attacking NavalMission disbands for want of targets

\* The update just made found the mission Attacking and returned
\* Disband(NoTargets).
NavalDisbandedNoTargets ==
    /\ ret.op = "NavalMission._onAiUpdate"
    /\ ret.stateBefore = "Attacking"
    /\ ret.action = disbandMissionFor("NoTargets")

\* C38 as stated: an Attacking NavalMission returns Disband(NoTargets) only
\* when no hostile that is not neutral is within the attack radius of its
\* target and more than 300 ticks (NAVAL_CHECK_INTERVAL_TICKS) have passed
\* since the mission entered Attacking.
C38_NoTargetsAfterIntervalOfAttacking ==
    NavalDisbandedNoTargets =>
        /\ NavalHostileCount = 0
        /\ tick > hist.attackingSince + NAVAL_CHECK_INTERVAL_TICKS

\* ---------------------------------------------------------------------
\* C39: the terrain of the target a scout is ordered toward

\* the scouting mode of a unit type: water for the water scouts
IsWaterScout(w, unit) == w.unitType[unit] \in waterScoutNames

\* C39: every order of an update sends a scout toward the target the mission
\* had, and the terrain of that target's tile, water or not, is the scouting
\* mode isWaterTarget the mission had; so a water scout is never ordered
\* toward a land target, not even after the mission has switched to water
\* scouting because its land scouts were stuck.
C39_OrdersMatchScoutingMode ==
    ret.op = "ScoutingMission._onAiUpdate" =>
        \A o \in ret.orders :
            /\ o.target = ret.before.scoutTarget
            /\ IsWaterTile(world, o.target) = ret.before.isWaterTarget
            /\ IsWaterScout(world, o.unit) = IsWaterTile(world, o.target)

\* A mission that switched to water scouting on its land target and was
\* given a destroyer drops the target without an order.
C39_Witness ==
    /\ ret.op = "ScoutingMission._onAiUpdate"
    /\ ret.before.isWaterTarget
    /\ ret.before.scoutTarget = ScoutLandTarget.pos
    /\ \E u \in ret.scouts : IsWaterScout(world, u)
    /\ ret.orders = {}
    /\ sq.scoutTarget = NoPoint

====
